---- MODULE Spec2Model ----
(***************************************************************************)
(* A state-machine model of pbench-tool-meister-start                      *)
(* (lib/pbench/agent/tool_meister_start.py): the start() driver, the       *)
(* Tool Meister launcher start_tms_via_ssh(), ToolDataSink.start() and     *)
(* ToolDataSink.wait(), and the rollback stack they register into.         *)
(*                                                                         *)
(* One run of start() is one behaviour.  Every blocking call of the code   *)
(* (a fork, a wait, a Redis operation, a file-system operation) is one     *)
(* step; its possible results are chosen with \E.                          *)
(***************************************************************************)
EXTENDS Integers, Sequences, FiniteSets, TLC

(***************************************************************************)
(* Bounds of the model.                                                    *)
(***************************************************************************)
\* The largest tool group explored (number of hosts).
MaxHosts == 2
\* How many rollback actions may raise during one run of cleanup().
MaxCleanupFaults == 1
\* The 60 second ceiling of ToolDataSink.start()'s polling loop
\* (_TDS_STARTUP_TIMEOUT), in ticks of the model's clock.
TimeoutTicks == 2
\* The longest message sequence given to ToolDataSink.wait() on its own.
MaxMsgs == 2

(***************************************************************************)
(* Program constants: the ReturnCode enumeration and the TDS timeout.      *)
(***************************************************************************)
SUCCESS == 0
BADTOOLGROUP == 1
MISSINGBENCHRUNDIR == 3
MISSINGINSTALLDIR == 4
EXCINSTALLDIR == 5
BADTOOLMETADATA == 6
MISSINGREQENVS == 7
EXCCREATETMDIR == 8
MISSINGHOSTNAMEENVS == 9
NOIP == 10
EXCREDISCONFIG == 11
EXCSPAWNREDIS == 12
REDISFAILED == 13
REDISCHANFAILED == 14
REDISTMKEYFAILED == 15
REDISTDSKEYFAILED == 16
TDSFORKFAILED == 17
TDSLOGPUBFAILED == 18
TMFAILURES == 19
EXCBENCHRUNDIR == 20
TDSWAITFAILURE == 21
EXCTOOLGROUPDIR == 23
INITFAILED == 25
TDSSTARTUPTIMEOUT == 26
TOOLGROUPEXC == 27
BADREDISPORT == 29
TMMISSING == 30
BADWSGIPORT == 31
BADSYSINFO == 32
MISSINGPARAMS == 33
MISSINGSSHCMD == 34
BADWSGIHOST == 35
BADREDISHOST == 36
BADFULLHOSTNAME == 37
BADHOSTNAME == 38
INVALIDORCHESTRATE == 39
REMOTENOTREACHABLE == 40
KEYBOARDINTERRUPT == 41
INVALIDTMDATA == 42
TOOLINSTALLFAILURES == 43
EXCCREATEUUID == 44

(***************************************************************************)
(* The hosts a tool group may name.  LocalRemoteHost.is_local() is true    *)
(* of the controller's own names only.                                     *)
(***************************************************************************)
Hosts == {"localhost", "remote1", "remote2"}
is_local(host) == host = "localhost"

\* The origin addresses a remote may report in ${SSH_CONNECTION}.
Origins == {"o1", "o2"}

\* tool_group.hostnames: an ordered dict, here a sequence without repeats.
\* The remote hosts are interchangeable, so of the groups that differ only
\* in the names of their remote hosts one is kept: "remote2" is named only
\* after "remote1".
HostSeqs ==
    {s \in UNION {[1..n -> Hosts] : n \in 0..MaxHosts} :
        /\ \A i, j \in DOMAIN s : i # j => s[i] # s[j]
        /\ \A j \in DOMAIN s :
              s[j] = "remote2" => \E i \in 1..(j - 1) : s[i] = "remote1"}

_orchestrate_choices == {"create", "existing"}

\* cli_params as start() receives it.  redis_server and tool_data_sink are
\* "" when the option is absent and "spec" when the caller gave one;
\* sysinfo is "" (none), "default" (a valid set) or "bad".
CliParams ==
    [orchestrate : {"create", "existing", "bogus"},
     redis_server : {"", "spec"},
     tool_data_sink : {"", "spec"},
     sysinfo : {"", "default", "bad"}]

\* Bus keys: tm-<group>-<host> and tds-<group>.
TmKey(host) == <<"tm", host>>
TdsKey == <<"tds">>

\* Range of a sequence.
Range(s) == {s[i] : i \in DOMAIN s}

VARIABLES
    pc,              \* position of the control flow in start()
    outcome,         \* "running", "returned" or "raised" (exception escaped)
    ret,             \* the value start() returned
    hostnames,       \* tool_group.hostnames, in dict order
    cli,             \* cli_params
    orchestrate,     \* start()'s local of that name
    tm_dir,          \* "absent" or "created": <benchmark_run_dir>/tm
    tool_dir,        \* tools-<group>: "unobserved" until mkdir() looks at it,
                     \* then "preexisting" or "created"; "absent" once removed
    recovery,        \* the Cleanup stack: a sequence of registered actions
    recovery_made,   \* whether recovery = Cleanup(logger) has run
    status,          \* the status of the exception being handled
    cleanup_calls,   \* how many times recovery.cleanup() was invoked
    cleanup_log,     \* the actions cleanup() ran, in the order run
    cleanup_faults,  \* how many of them raised
    idx,             \* position of the current for-loop over the hosts
    ssh_sessions,    \* hosts with a probe session of the TemplateSsh open
    origin_host,     \* params["origin_host"] per host ("" when not set)
    origin_ip,       \* the set origin_ip
    redis_server_spec, \* start()'s local: "", "spec" or an origin
    tds_server_spec,   \* start()'s local: "", "spec" or an origin
    redis_running,   \* a Redis server started by this run is running
    connected,       \* redis_client / to_client_chan exist
    bus,             \* the blobs in the Redis server: key -> tds_hostname
    written,         \* history: every key a redis_client.set() stored
    tm_param_key,    \* start()'s local of that name (<<>> while unbound)
    tds_running,     \* a data-sink daemon created by this run is running
    tds_attempted,   \* history: tool_data_sink.start() was called
    tds_started,     \* history: tool_data_sink.start() returned normally
    now,             \* clock ticks since ToolDataSink.start() set its timeout
    num_present,     \* ToolDataSink.start's local: subscribers last counted
    tms,             \* start_tms_via_ssh's launch records: host -> status ("": none)
    tm_count,        \* start_tms_via_ssh's local
    failures,        \* start_tms_via_ssh's local
    successes,       \* start_tms_via_ssh's local
    launched,        \* history: hosts a fork / remote submit was issued for
    joined,          \* history: hosts a waitpid / transport wait was done for
    tm_running,      \* hosts where a Tool Meister daemon is running
    diagnosed,       \* history: hosts a failure was logged for by start_tms_via_ssh
    tms_raised,      \* what start_tms_via_ssh ended with ("" while running)
    wait_status,     \* ToolDataSink.wait's local `status`
    chan,            \* the messages chan.fetch_json() has still to yield
    chan_seen,       \* history: the messages ToolDataSink.wait() was given
    got_startup,     \* history: wait() was given a ds/startup/success message
    ret_val,         \* start()'s local of that name (-1 while unbound)
    tm_report,       \* the operational report read: host -> has failed tools
    tool_install_failures, \* start()'s local: the failing hosts collected
    terminate_sent,  \* the terminate request was published
    sysinfo_sent,    \* the sysinfo request was published
    init_sent,       \* the init request was published
    dns,             \* socket.gethostbyname: name -> address ("": no address)
    server,          \* the fields of the RedisServer object
    running,         \* ToolDataSink.wait_for_pid's local of that name
    tds_killed,      \* history: shutdown_tds called self.kill()
    spec_in,         \* the specification string given to a server constructor
    endpoint,        \* the fields the constructor resolved it to
    fs,              \* culling job: the INCOMING, RESULTS and USERS trees
    job,             \* culling job: the options and locals of main()
    ru               \* culling job: the frame of remove_unpacked()

inputVars == <<hostnames, cli>>
cullVars == <<fs, job, ru>>
resultVars == <<outcome, ret>>
fsVars == <<tm_dir, tool_dir>>
cleanupVars == <<cleanup_log, cleanup_faults>>
probeVars == <<ssh_sessions, origin_host, origin_ip>>
specVars == <<redis_server_spec, tds_server_spec>>
busVars == <<bus, written, tm_param_key>>
tdsVars == <<tds_running, tds_attempted, tds_started, now, num_present>>
tmsVars == <<tms, tm_count, failures, successes, launched, joined,
             tm_running, diagnosed, tms_raised>>
waitVars == <<wait_status, chan, chan_seen, got_startup>>
reportVars == <<tm_report, tool_install_failures>>
clientVars == <<ret_val, reportVars, terminate_sent, sysinfo_sent, init_sent>>
serverVars == <<dns, server, running, tds_killed, spec_in, endpoint>>

vars == <<pc, outcome, ret, hostnames, cli, orchestrate, tm_dir, tool_dir,
          recovery, recovery_made, status, cleanup_calls, cleanup_log,
          cleanup_faults, idx, ssh_sessions, origin_host, origin_ip,
          redis_server_spec, tds_server_spec, redis_running, connected, bus,
          written, tm_param_key, tds_running, tds_attempted, tds_started,
          now, num_present, tms, tm_count, failures, successes, launched,
          joined, tm_running, diagnosed, tms_raised, wait_status, chan, chan_seen, got_startup,
          ret_val,
          tm_report, tool_install_failures, terminate_sent, sysinfo_sent,
          init_sent, dns, server, running, tds_killed, spec_in, endpoint,
          fs, job, ru>>

\* The names a server specification may give, and the addresses they may
\* resolve to.
Names == {"0.0.0.0", "localhost", "h1", "h2"}
Addresses == {"0.0.0.0", "127.0.0.1", "10.0.0.1"}

\* What socket.gethostbyname may answer: "0.0.0.0" is its own address, any
\* other name has the loopback address, another one, or none ("").
Resolutions ==
    {d \in [Names -> Addresses \cup {""}] :
        /\ d["0.0.0.0"] = "0.0.0.0"
        /\ \A n \in Names \ {"0.0.0.0"} : d[n] # "0.0.0.0"}

\* The resolution of a host whose names all have their usual address.
HostsFile ==
    [n \in Names |-> IF n = "0.0.0.0" THEN "0.0.0.0"
                     ELSE IF n = "localhost" THEN "127.0.0.1"
                     ELSE "10.0.0.1"]

\* The RedisServer object before RedisServer(...) has run: no field is set.
Unconstructed ==
    [host |-> "None", bind_host |-> "None", local_host |-> "None",
     bind_hostnames_l |-> <<>>]

\* The value of a port field that is None.
NoPort == -1

\* The fields of a server object no constructor has set.
NoEndpoint ==
    [cls |-> "None", bind_host |-> <<>>, bind_port |-> NoPort,
     host |-> <<>>, port |-> NoPort, pid_file |-> "unset"]

\* The culling job's state in a run of the orchestrator: no tree, no job,
\* no frame.
NoFs == [results |-> <<>>, users |-> <<>>, user |-> <<>>, incoming |-> <<>>]

NoJob ==
    [dry_run |-> FALSE, gen |-> <<>>, i |-> 0, actions_taken |-> <<>>,
     errors |-> 0, status |-> "none", ret |-> -1]

NoFrame ==
    [tb |-> 0, phase |-> "idle", j |-> 0, errors |-> 0, actions_taken |-> <<>>]

\* The state when start() is entered: nothing acquired, every local unbound.
Init ==
    /\ pc = "load"
    /\ outcome = "running"
    /\ ret = -1
    /\ hostnames \in HostSeqs
    /\ cli \in CliParams
    /\ orchestrate = FALSE
    /\ tm_dir = "absent"
    /\ tool_dir = "unobserved"
    /\ recovery = <<>>
    /\ recovery_made = FALSE
    /\ status = -1
    /\ cleanup_calls = 0
    /\ cleanup_log = <<>>
    /\ cleanup_faults = 0
    /\ idx = 1
    /\ ssh_sessions = {}
    /\ origin_host = [h \in Hosts |-> ""]
    /\ origin_ip = {}
    /\ redis_server_spec = ""
    /\ tds_server_spec = ""
    /\ redis_running = FALSE
    /\ connected = FALSE
    /\ bus = <<>>
    /\ written = {}
    /\ tm_param_key = <<>>
    /\ tds_running = FALSE
    /\ tds_attempted = FALSE
    /\ tds_started = FALSE
    /\ now = 0
    /\ num_present = 0
    /\ tms = [h \in Hosts |-> ""]
    /\ tm_count = 0
    /\ failures = 0
    /\ successes = 0
    /\ launched = <<>>
    /\ joined = <<>>
    /\ tm_running = {}
    /\ diagnosed = {}
    /\ tms_raised = ""
    /\ wait_status = ""
    /\ chan = <<>>
    /\ chan_seen = <<>>
    /\ got_startup = FALSE
    /\ ret_val = -1
    /\ tm_report = [h \in {} |-> FALSE]
    /\ tool_install_failures = {}
    /\ terminate_sent = FALSE
    /\ sysinfo_sent = FALSE
    /\ init_sent = FALSE
    /\ dns = HostsFile
    /\ server = Unconstructed
    /\ running = FALSE
    /\ tds_killed = FALSE
    /\ spec_in = <<>>
    /\ endpoint = NoEndpoint
    /\ fs = NoFs
    /\ job = NoJob
    /\ ru = NoFrame

(***************************************************************************)
(* How a step of start() ends.                                             *)
(***************************************************************************)
\* `return code` executed by start().
Return(code) ==
    /\ pc' = "done"
    /\ outcome' = "returned"
    /\ ret' = code

\* An exception left the function: nothing in start() caught it.
Escape ==
    /\ pc' = "done"
    /\ outcome' = "raised"
    /\ UNCHANGED ret

\* Handle with no `except Exception` clause after the two others: what
\* is neither a CleanupTime nor an interrupt leaves start().
Handle_NoExceptException(code) ==
    IF code = INITFAILED
    THEN Escape /\ UNCHANGED <<status, cleanup_calls>>
    ELSE /\ pc' = "handler"
         /\ status' = code
         /\ UNCHANGED <<resultVars, cleanup_calls>>

\* An exception raised inside the outer try block propagates to the except
\* clause of start() that matches it; code is the status that clause returns.
Handle(code) ==
    /\ pc' = "handler"
    /\ status' = code
    /\ UNCHANGED <<resultVars, cleanup_calls>>

\* The positions of start() before recovery = Cleanup(logger) and the try.
PreTry == {"load", "verify", "env", "tmdir", "recovery"}
\* The positions inside the outer try block.
InTry == {"probe", "probe_wait", "servers", "redis", "connect", "push",
          "tds_fork", "tds_child", "tds_poll", "tds_pid", "reg_term",
          "launch", "join", "wait", "report", "sysinfo", "tooldir", "init"}

\* recovery.add(action, description): the registered action, named by what
\* it does and (for a per-host key) the host it was registered for.
Action(kind, host) == [kind |-> kind, host |-> host]

(***************************************************************************)
(* Step 1: load the tool group.                                            *)
(***************************************************************************)
\* AfterLoad without the test for an empty group.
AfterLoad_NoEmptyCheck == pc' = "verify" /\ UNCHANGED resultVars

\* With the group loaded: an empty group ends start() at once.
AfterLoad ==
    IF hostnames = <<>>
    THEN Return(SUCCESS)
    ELSE pc' = "verify" /\ UNCHANGED resultVars

LoadToolGroup ==
    /\ pc = "load"
    /\ \/ Return(BADTOOLGROUP)
       \/ Return(TOOLGROUPEXC)
       \/ AfterLoad
    /\ UNCHANGED <<inputVars, cullVars, serverVars, orchestrate, fsVars, recovery, recovery_made,
                   status, cleanup_calls, cleanupVars, idx, probeVars,
                   specVars, redis_running, connected, busVars, tdsVars,
                   tmsVars, waitVars, clientVars>>

(***************************************************************************)
(* Verification of the CLI parameters and of the environment.              *)
(***************************************************************************)
\* Orchestrating with the mode of the caller ignored.
Orchestrating_Always(c) == TRUE

\* The local `orchestrate`: False for "existing", True otherwise.
Orchestrating(c) == c.orchestrate # "existing"

VerifyParams ==
    /\ pc = "verify"
    /\ IF cli.sysinfo = "bad"
       THEN Return(BADSYSINFO) /\ UNCHANGED orchestrate
       ELSE IF cli.orchestrate \notin _orchestrate_choices
       THEN Return(INVALIDORCHESTRATE) /\ UNCHANGED orchestrate
       ELSE IF cli.orchestrate = "existing"
               /\ (cli.redis_server = "" \/ cli.tool_data_sink = "")
       THEN Return(MISSINGPARAMS) /\ UNCHANGED orchestrate
       ELSE /\ orchestrate' = Orchestrating(cli)
            /\ pc' = "env"
            /\ UNCHANGED resultVars
    /\ UNCHANGED <<inputVars, cullVars, serverVars, fsVars, recovery, recovery_made,
                   status, cleanup_calls, cleanupVars, idx, probeVars,
                   specVars, redis_running, connected, busVars, tdsVars,
                   tmsVars, waitVars, clientVars>>

\* What a missing or invalid environment variable makes start() return.
EnvErrors ==
    {MISSINGREQENVS, MISSINGINSTALLDIR, EXCINSTALLDIR, MISSINGHOSTNAMEENVS,
     BADFULLHOSTNAME, BADHOSTNAME, MISSINGBENCHRUNDIR, EXCBENCHRUNDIR}

LoadEnv ==
    /\ pc = "env"
    /\ \/ \E code \in EnvErrors : Return(code)
       \/ /\ pc' = IF orchestrate THEN "tmdir" ELSE "recovery"
          /\ UNCHANGED resultVars
    /\ UNCHANGED <<inputVars, cullVars, serverVars, orchestrate, fsVars, recovery, recovery_made,
                   status, cleanup_calls, cleanupVars, idx, probeVars,
                   specVars, redis_running, connected, busVars, tdsVars,
                   tmsVars, waitVars, clientVars>>

\* if orchestrate: tm_dir.mkdir(); os.chdir(tm_dir); write the .uuid file.
CreateTmDir ==
    /\ pc = "tmdir"
    /\ \/ \* mkdir() raised: nothing was created
          Return(EXCCREATETMDIR) /\ UNCHANGED tm_dir
       \/ \* mkdir() succeeded and chdir() raised
          Return(EXCCREATETMDIR) /\ tm_dir' = "created"
       \/ \* uuid_file.write_text() raised
          Return(EXCCREATEUUID) /\ tm_dir' = "created"
       \/ /\ tm_dir' = "created"
          /\ pc' = "recovery"
          /\ UNCHANGED resultVars
    /\ UNCHANGED <<inputVars, cullVars, serverVars, orchestrate, tool_dir, recovery, recovery_made,
                   status, cleanup_calls, cleanupVars, idx, probeVars,
                   specVars, redis_running, connected, busVars, tdsVars,
                   tmsVars, waitVars, clientVars>>

\* The optional environment, the two server specifications, and
\* recovery = Cleanup(logger); the outer try block starts after it.
CreateRecovery ==
    /\ pc = "recovery"
    /\ redis_server_spec' = cli.redis_server
    /\ tds_server_spec' = cli.tool_data_sink
    /\ recovery' = <<>>
    /\ recovery_made' = TRUE
    /\ pc' = IF orchestrate THEN "probe" ELSE "servers"
    /\ UNCHANGED <<resultVars, inputVars, cullVars, serverVars, orchestrate, fsVars,
                   status, cleanup_calls, cleanupVars, idx, probeVars,
                   redis_running, connected, busVars, tdsVars,
                   tmsVars, waitVars, clientVars>>

(***************************************************************************)
(* The SSH probe of the remote hosts (orchestrate only).                   *)
(***************************************************************************)
RemoteIn(s) == {s[i] : i \in {j \in DOMAIN s : ~is_local(s[j])}}

\* shutil.which("ssh"), recovery.add(template.abort), and the loop of
\* template.start(host) over the remote hosts.
ProbeStart ==
    /\ pc = "probe"
    /\ \/ \* ssh is not in the PATH
          /\ Handle(MISSINGSSHCMD)
          /\ UNCHANGED <<recovery, ssh_sessions, idx>>
       \/ \* every remote probe was submitted
          /\ recovery' = Append(recovery, Action("abort", ""))
          /\ ssh_sessions' = RemoteIn(hostnames)
          /\ idx' = 1
          /\ pc' = "probe_wait"
          /\ UNCHANGED <<resultVars, status, cleanup_calls>>
       \/ \* template.start() raised for the remote host at position k
          \E k \in DOMAIN hostnames :
             /\ ~is_local(hostnames[k])
             /\ recovery' = Append(recovery, Action("abort", ""))
             /\ ssh_sessions' = RemoteIn(SubSeq(hostnames, 1, k - 1))
             /\ Handle(INITFAILED)
             /\ UNCHANGED idx
    /\ UNCHANGED <<inputVars, cullVars, serverVars, orchestrate, fsVars, recovery_made,
                   cleanupVars, origin_host, origin_ip,
                   specVars, redis_running, connected, busVars, tdsVars,
                   tmsVars, waitVars, clientVars>>

\* One iteration of the loop over tool_group.hostnames.items() that waits
\* for each remote probe.
ProbeWait ==
    /\ pc = "probe_wait"
    /\ idx <= Len(hostnames)
    /\ LET host == hostnames[idx] IN
       IF is_local(host)
       THEN /\ idx' = idx + 1
            /\ UNCHANGED <<pc, resultVars, status, cleanup_calls,
                           probeVars>>
       ELSE \/ \* connection.status == 0 and connection.stdout
               \E origin \in Origins :
                  /\ origin_ip' = origin_ip \cup {origin}
                  /\ origin_host' = [origin_host EXCEPT ![host] = origin]
                  /\ ssh_sessions' = ssh_sessions \ {host}
                  /\ idx' = idx + 1
                  /\ UNCHANGED <<pc, resultVars, status, cleanup_calls>>
            \/ \* a non-zero status or an empty output
               /\ ssh_sessions' = ssh_sessions \ {host}
               /\ Handle(REMOTENOTREACHABLE)
               /\ UNCHANGED <<idx, origin_host, origin_ip>>
    /\ UNCHANGED <<inputVars, cullVars, serverVars, orchestrate, fsVars, recovery, recovery_made,
                   cleanupVars, specVars, redis_running, connected, busVars,
                   tdsVars, tmsVars, waitVars, clientVars>>

\* After the loop: adopt a discovered origin for the specifications the
\* caller did not give.
ProbeDone ==
    /\ pc = "probe_wait"
    /\ idx > Len(hostnames)
    /\ IF origin_ip # {}
       THEN \E origin \in origin_ip :   \* next(iter(origin_ip))
               /\ tds_server_spec' =
                     IF tds_server_spec = "" THEN origin ELSE tds_server_spec
               /\ redis_server_spec' =
                     IF redis_server_spec = "" THEN origin
                     ELSE redis_server_spec
       ELSE UNCHANGED specVars
    /\ pc' = "servers"
    /\ UNCHANGED <<resultVars, inputVars, cullVars, serverVars, orchestrate, fsVars, recovery,
                   recovery_made, status, cleanup_calls, cleanupVars, idx,
                   probeVars, redis_running, connected, busVars, tdsVars,
                   tmsVars, waitVars, clientVars>>

(***************************************************************************)
(* The server objects, the Redis server and the connection to it.          *)
(***************************************************************************)
\* RedisServer(redis_server_spec, ...), ToolDataSink(tds_server_spec, ...)
\* and ToolMetadata(tm_start_path).
ResolveServers ==
    /\ pc = "servers"
    /\ \/ /\ redis_server_spec = "spec"
          /\ \E code \in {BADREDISPORT, BADREDISHOST} : Handle(code)
       \/ /\ tds_server_spec = "spec"
          /\ \E code \in {BADWSGIPORT, BADWSGIHOST} : Handle(code)
       \/ Handle(BADTOOLMETADATA)
       \/ /\ pc' = IF orchestrate THEN "redis" ELSE "connect"
          /\ UNCHANGED <<resultVars, status, cleanup_calls>>
    /\ UNCHANGED <<inputVars, cullVars, serverVars, orchestrate, fsVars, recovery, recovery_made,
                   cleanupVars, idx, probeVars, specVars, redis_running,
                   connected, busVars, tdsVars, tmsVars, waitVars,
                   clientVars>>

\* StartRedis with "stop Redis" registered before redis_server.start().
StartRedis_RegisterFirst ==
    /\ pc = "redis"
    /\ \/ /\ \E code \in {NOIP, EXCREDISCONFIG, EXCSPAWNREDIS, REDISFAILED} :
                Handle(code)
          /\ recovery' = Append(recovery, Action("redis", ""))
          /\ UNCHANGED redis_running
       \/ /\ redis_running' = TRUE
          /\ recovery' = Append(recovery, Action("redis", ""))
          /\ pc' = "connect"
          /\ UNCHANGED <<resultVars, status, cleanup_calls>>
    /\ UNCHANGED <<inputVars, cullVars, serverVars, orchestrate, fsVars, recovery_made,
                   cleanupVars, idx, probeVars, specVars,
                   connected, busVars, tdsVars, tmsVars, waitVars,
                   clientVars>>

\* redis_server.start(tm_dir), then recovery.add(... "stop Redis").
StartRedis ==
    /\ pc = "redis"
    /\ \/ /\ \E code \in {NOIP, EXCREDISCONFIG, EXCSPAWNREDIS, REDISFAILED} :
                Handle(code)
          /\ UNCHANGED <<redis_running, recovery>>
       \/ /\ redis_running' = TRUE
          /\ recovery' = Append(recovery, Action("redis", ""))
          /\ pc' = "connect"
          /\ UNCHANGED <<resultVars, status, cleanup_calls>>
    /\ UNCHANGED <<inputVars, cullVars, serverVars, orchestrate, fsVars, recovery_made,
                   cleanupVars, idx, probeVars, specVars,
                   connected, busVars, tdsVars, tmsVars, waitVars,
                   clientVars>>

\* redis.Redis(...), RedisChannelSubscriber(...), tool_group.archive(...).
ConnectRedis ==
    /\ pc = "connect"
    /\ \/ Handle(REDISCHANFAILED) /\ UNCHANGED <<connected, idx>>
       \/ \* tool_group.archive() raised
          Handle(INITFAILED) /\ connected' = TRUE /\ UNCHANGED idx
       \/ /\ connected' = TRUE
          /\ idx' = 1
          /\ pc' = "push"
          /\ UNCHANGED <<resultVars, status, cleanup_calls>>
    /\ UNCHANGED <<inputVars, cullVars, serverVars, orchestrate, fsVars, recovery, recovery_made,
                   cleanupVars, probeVars, specVars, redis_running,
                   busVars, tdsVars, tmsVars, waitVars, clientVars>>

(***************************************************************************)
(* Step 4: push the per-host blobs and the data-sink blob.                 *)
(***************************************************************************)
\* tool_data_sink.host of the server object built from tds_server_spec.
TdsHost == IF tds_server_spec = "" THEN "full_hostname" ELSE tds_server_spec

\* The tds_hostname field of the blob of `host`.
TdsHostnameFor(host) ==
    IF origin_host[host] # "" THEN origin_host[host] ELSE TdsHost

\* redis_client.set(key, value)
BusSet(b, key, value) ==
    [k \in DOMAIN b \cup {key} |-> IF k = key THEN value ELSE b[k]]

\* redis_client.delete(key)
BusDelete(b, key) == [k \in DOMAIN b \ {key} |-> b[k]]

\* One iteration of the loop over tool_group.hostnames.items().
\* instance_uuid is bound only when orchestrating: without it the dict()
\* of the first iteration raises a NameError.
PushTmKey ==
    /\ pc = "push"
    /\ idx <= Len(hostnames)
    /\ LET host == hostnames[idx] IN
       IF ~orchestrate
       THEN /\ Handle(INITFAILED)
            /\ UNCHANGED <<busVars, recovery, idx>>
       ELSE /\ tm_param_key' = TmKey(host)
            /\ \/ \* redis_client.set() raised
                  /\ Handle(REDISTMKEYFAILED)
                  /\ UNCHANGED <<bus, written, recovery, idx>>
               \/ /\ bus' = BusSet(bus, TmKey(host), TdsHostnameFor(host))
                  /\ written' = written \cup {TmKey(host)}
                  /\ recovery' = Append(recovery, Action("tmkey", host))
                  /\ idx' = idx + 1
                  /\ UNCHANGED <<pc, resultVars, status, cleanup_calls>>
    /\ UNCHANGED <<inputVars, cullVars, serverVars, orchestrate, fsVars, recovery_made,
                   cleanupVars, probeVars, specVars, redis_running,
                   connected, tdsVars, tmsVars, waitVars, clientVars>>

\* PushTdsKey going on without storing the data-sink's key.
PushTdsKey_NoSet ==
    /\ pc = "push"
    /\ idx > Len(hostnames)
    /\ pc' = IF orchestrate THEN "tds_fork" ELSE "reg_term"
    /\ UNCHANGED <<resultVars, status, cleanup_calls, bus, written, recovery,
                   inputVars, cullVars, serverVars, orchestrate, fsVars, recovery_made,
                   cleanupVars, idx, probeVars, specVars, redis_running,
                   connected, tm_param_key, tdsVars, tmsVars, waitVars,
                   clientVars>>

\* After the loop: the key for the Tool Data Sink.
PushTdsKey ==
    /\ pc = "push"
    /\ idx > Len(hostnames)
    /\ \/ \* redis_client.set() raised
          /\ Handle(REDISTDSKEYFAILED)
          /\ UNCHANGED <<bus, written, recovery>>
       \/ /\ bus' = BusSet(bus, TdsKey, "tds")
          /\ written' = written \cup {TdsKey}
          /\ recovery' = Append(recovery, Action("tdskey", ""))
          /\ pc' = IF orchestrate THEN "tds_fork" ELSE "reg_term"
          /\ UNCHANGED <<resultVars, status, cleanup_calls>>
    /\ UNCHANGED <<inputVars, cullVars, serverVars, orchestrate, fsVars, recovery_made,
                   cleanupVars, idx, probeVars, specVars, redis_running,
                   connected, tm_param_key, tdsVars, tmsVars, waitVars,
                   clientVars>>

(***************************************************************************)
(* Step 5: ToolDataSink.start() (orchestrate only).                        *)
(***************************************************************************)
\* pid = os.fork() in the parent: the fork raises, or the first-generation
\* child runs and the parent goes on to _waitpid(pid).
TdsFork ==
    /\ pc = "tds_fork"
    /\ tds_attempted' = TRUE
    /\ \/ \* os.fork() raised: `except Exception` raises TDSFORKFAILED
          Handle(TDSFORKFAILED)
       \/ /\ pc' = "tds_child"
          /\ UNCHANGED <<resultVars, status, cleanup_calls>>
    /\ UNCHANGED <<inputVars, cullVars, serverVars, orchestrate, fsVars, recovery, recovery_made,
                   cleanupVars, idx, probeVars, specVars, redis_running,
                   connected, busVars, tds_running, tds_started, now,
                   num_present, tmsVars, waitVars, clientVars>>

\* retcode = _waitpid(pid).  The raise of TDSWAITFAILURE for a non-zero
\* retcode sits inside the try whose `except Exception` raises
\* TDSFORKFAILED, and so does the StartTmsErr that _waitpid raises for a
\* child killed by a signal.
TdsWaitChild ==
    /\ pc = "tds_child"
    /\ \/ \* the child exited non-zero, or was killed by a signal
          Handle(TDSFORKFAILED) /\ UNCHANGED <<tds_running, now, num_present>>
       \/ \* the child exited 0: the data-sink daemonized
          /\ tds_running' = TRUE
          /\ now' = 0
          /\ num_present' = 0
          /\ pc' = "tds_poll"
          /\ UNCHANGED <<resultVars, status, cleanup_calls>>
    /\ UNCHANGED <<inputVars, cullVars, serverVars, orchestrate, fsVars, recovery, recovery_made,
                   cleanupVars, idx, probeVars, specVars, redis_running,
                   connected, busVars, tds_attempted, tds_started, tmsVars,
                   waitVars, clientVars>>

\* SleepUntil with the deadline computed anew in every iteration.
SleepUntil_DeadlineReset(t) == 1..(TimeoutTicks + 1)

\* time.time() > timeout, t being the ticks since timeout was set.
TimedOut(t) == t > TimeoutTicks

\* The clock readings time.sleep(0.1) may return at, in ticks since timeout
\* was set: later than t, and the first one past the ceiling at the most
\* (what follows the ceiling makes no difference to the loop).
SleepUntil(t) == (t + 1)..(TimeoutTicks + 1)

\* The loop left whatever the publish returned.
LoopEnds_Always(n) == TRUE

\* `while num_present == 0:` is left once a publish found a subscriber.
LoopEnds(n) == n # 0

\* One iteration of the loop publishing on the logging channel; n is what
\* redis_client.publish() returned.
TdsPoll ==
    /\ pc = "tds_poll"
    /\ \/ \* redis_client.publish() raised
          Handle(TDSLOGPUBFAILED) /\ UNCHANGED <<now, num_present>>
       \/ \E n \in {0, 1} :
             /\ num_present' = n
             /\ IF LoopEnds(n)
                THEN \* the loop ends
                     /\ pc' = "tds_pid"
                     /\ UNCHANGED <<resultVars, status, cleanup_calls, now>>
                ELSE IF TimedOut(now)
                THEN Handle(TDSSTARTUPTIMEOUT) /\ UNCHANGED now
                ELSE /\ now' \in SleepUntil(now)
                     /\ UNCHANGED <<pc, resultVars, status, cleanup_calls>>
    /\ UNCHANGED <<inputVars, cullVars, serverVars, orchestrate, fsVars, recovery, recovery_made,
                   cleanupVars, idx, probeVars, specVars, redis_running,
                   connected, busVars, tds_running, tds_attempted,
                   tds_started, tmsVars, waitVars, clientVars>>

\* The PID file check that ends ToolDataSink.start(), and the
\* recovery.add(... "stop TDS") that follows its return.
TdsPidFile ==
    /\ pc = "tds_pid"
    /\ \/ \* pbench-tool-data-sink.pid does not exist
          /\ Handle(TDSWAITFAILURE)
          /\ UNCHANGED <<recovery, tds_started>>
       \/ /\ tds_started' = TRUE
          /\ recovery' = Append(recovery, Action("tds", ""))
          /\ pc' = "reg_term"
          /\ UNCHANGED <<resultVars, status, cleanup_calls>>
    /\ UNCHANGED <<inputVars, cullVars, serverVars, orchestrate, fsVars, recovery_made,
                   cleanupVars, idx, probeVars, specVars, redis_running,
                   connected, busVars, tds_running, tds_attempted, now,
                   num_present, tmsVars, waitVars, clientVars>>

\* RegisterTerminate with the action put under the ones registered before.
RegisterTerminate_First ==
    /\ pc = "reg_term"
    /\ recovery' = <<Action("terminate", "")>> \o recovery
    /\ idx' = 1
    /\ pc' = IF orchestrate THEN "launch" ELSE "wait"
    /\ UNCHANGED <<resultVars, inputVars, cullVars, serverVars, orchestrate, fsVars, recovery_made,
                   status, cleanup_calls, cleanupVars, probeVars, specVars,
                   redis_running, connected, busVars, tdsVars, tmsVars,
                   waitVars, clientVars>>

\* recovery.add(lambda: terminate_no_wait(...), "terminate tool group")
RegisterTerminate ==
    /\ pc = "reg_term"
    /\ recovery' = Append(recovery, Action("terminate", ""))
    /\ idx' = 1
    /\ pc' = IF orchestrate THEN "launch" ELSE "wait"
    /\ UNCHANGED <<resultVars, inputVars, cullVars, serverVars, orchestrate, fsVars, recovery_made,
                   status, cleanup_calls, cleanupVars, probeVars, specVars,
                   redis_running, connected, busVars, tdsVars, tmsVars,
                   waitVars, clientVars>>

(***************************************************************************)
(* Step 6: start_tms_via_ssh() (orchestrate only).                         *)
(***************************************************************************)
\* The launch record and the failure count after the launch of a local
\* host: the except clause counts the failure and records "failed".
LocalLaunch(raised) ==
    [status |-> IF raised THEN "failed" ELSE "forked",
     failures |-> IF raised THEN failures + 1 ELSE failures]

\* The same for a remote host: the except clause only records "failed".
RemoteLaunch(raised) ==
    [status |-> IF raised THEN "failed" ELSE "spawned",
     failures |-> failures]

\* LaunchLoopPc with the second loop entered after the first launch.
LaunchLoopPc_JoinEarly(i) == "join"

\* Where the control flow is after the launch of the host at position i:
\* the first loop runs over every host before the second loop starts.
LaunchLoopPc(i) == IF i < Len(hostnames) THEN "launch" ELSE "join"

\* One iteration of the first loop: fork, or submit the remote command.
LaunchTm ==
    /\ pc = "launch"
    /\ idx <= Len(hostnames)
    /\ LET host == hostnames[idx] IN
       \E raised \in BOOLEAN :
          LET rec == IF is_local(host) THEN LocalLaunch(raised)
                     ELSE RemoteLaunch(raised) IN
          /\ tm_count' = tm_count + 1
          /\ launched' = Append(launched, host)
          /\ tms' = [tms EXCEPT ![host] = rec.status]
          /\ failures' = rec.failures
          /\ diagnosed' = IF raised THEN diagnosed \cup {host}
                           ELSE diagnosed
    /\ pc' = LaunchLoopPc(idx)
    /\ idx' = IF LaunchLoopPc(idx) = "launch" THEN idx + 1 ELSE 1
    /\ UNCHANGED <<resultVars, inputVars, cullVars, serverVars, orchestrate, fsVars, recovery,
                   recovery_made, status, cleanup_calls, cleanupVars,
                   probeVars, specVars, redis_running, connected, busVars,
                   tdsVars, successes, joined, tm_running, tms_raised,
                   waitVars, clientVars>>

\* The counts after the record of one host was handled by the second loop;
\* exit_ok says whether the join returned an exit status of 0.
JoinTally(rec_status, exit_ok) ==
    IF rec_status = "failed"
    THEN [failures |-> failures + 1, successes |-> successes]
    ELSE IF exit_ok
    THEN [failures |-> failures, successes |-> successes + 1]
    ELSE [failures |-> failures + 1, successes |-> successes]

\* The second loop left at the first host that did not start.
JoinNext_StopOnFailure(i, exit_ok) ==
    IF exit_ok THEN i + 1 ELSE Len(hostnames) + 1

\* The position the second loop goes on with after the record at position
\* i: the next one, whatever the join gave.
JoinNext(i, exit_ok) == i + 1

\* One iteration of the second loop, over tms.items().  A forked child is
\* joined with _waitpid() (which may raise), a spawned one with
\* template.wait(); a "failed" record is only counted.
JoinTm ==
    /\ pc = "join"
    /\ idx <= Len(hostnames)
    /\ LET host == hostnames[idx] IN
       \E exit_ok \in BOOLEAN :
          LET tally == JoinTally(tms[host], exit_ok) IN
          /\ tms[host] = "failed" => ~exit_ok
          /\ failures' = tally.failures
          /\ successes' = tally.successes
          /\ joined' = IF tms[host] = "failed" THEN joined
                       ELSE Append(joined, host)
          /\ tm_running' = IF exit_ok THEN tm_running \cup {host}
                           ELSE tm_running
          /\ diagnosed' = IF tms[host] # "failed" /\ ~exit_ok
                          THEN diagnosed \cup {host}
                          ELSE diagnosed
          /\ idx' = JoinNext(idx, exit_ok)
    /\ UNCHANGED <<pc, resultVars, inputVars, cullVars, serverVars, orchestrate, fsVars, recovery,
                   recovery_made, status, cleanup_calls, cleanupVars,
                   probeVars, specVars, redis_running, connected, busVars,
                   tdsVars, tms, tm_count, launched, tms_raised,
                   waitVars, clientVars>>

\* TmsEnd without the raise of TMFAILURES.
TmsEnd_NoFailuresRaise ==
    IF ~(tm_count = Len(hostnames) /\ tm_count = successes + failures)
    THEN "AssertionError"
    ELSE IF successes # tm_count THEN "TMMISSING"
    ELSE "none"

\* How start_tms_via_ssh() ends after the second loop: the assertion, then
\* the two raises, else a normal return ("none").
TmsEnd ==
    IF ~(tm_count = Len(hostnames) /\ tm_count = successes + failures)
    THEN "AssertionError"
    ELSE IF failures > 0 THEN "TMFAILURES"
    ELSE IF successes # tm_count THEN "TMMISSING"
    ELSE "none"

\* The end of start_tms_via_ssh() and start()'s `except StartTmsErr`: an
\* AssertionError is not a StartTmsErr and reaches `except Exception`.
CheckTms ==
    /\ pc = "join"
    /\ idx > Len(hostnames)
    /\ tms_raised' = TmsEnd
    /\ CASE TmsEnd = "AssertionError" -> Handle(INITFAILED)
         [] TmsEnd = "TMFAILURES" -> Handle(TMFAILURES)
         [] TmsEnd = "TMMISSING" -> Handle(TMMISSING)
         [] OTHER -> /\ pc' = "wait"
                     /\ UNCHANGED <<resultVars, status, cleanup_calls>>
    /\ UNCHANGED <<inputVars, cullVars, serverVars, orchestrate, fsVars, recovery, recovery_made,
                   cleanupVars, idx, probeVars, specVars, redis_running,
                   connected, busVars, tdsVars, tms, tm_count, failures,
                   successes, launched, joined, tm_running, diagnosed,
                   waitVars,
                   clientVars>>

(***************************************************************************)
(* Step 7: ToolDataSink.wait() on the to-client channel.                   *)
(***************************************************************************)
\* The fields a message may carry; "absent" stands for a missing key.
Kinds == {"ds", "tm", "absent"}
Actions == {"startup", "other", "absent"}
Statuses == {"success", "failure", "absent"}

\* The local `status` after the three subscripts of the try block: it is
\* assigned last, and only when no subscript raised a KeyError.
StatusAfter(old, kind, action, st) ==
    IF kind = "absent" \/ action = "absent" \/ st = "absent" THEN old ELSE st

\* Whether the loop body reaches `break` for this message.
Breaks(kind, action, st) ==
    /\ kind # "absent" /\ action # "absent" /\ st # "absent"
    /\ kind = "ds"
    /\ action = "startup"

\* Whether the message is the report of a successful startup.
IsStartupSuccess(kind, action, st) ==
    kind = "ds" /\ action = "startup" /\ st = "success"

\* return 0 if status == "success" else 1
WaitReturn(st) == IF st = "success" THEN 0 ELSE 1

\* start() after tool_data_sink.wait() returned rv.
AfterWait(rv) ==
    IF rv # 0
    THEN Handle(TDSWAITFAILURE)
    ELSE pc' = "report" /\ UNCHANGED <<resultVars, status, cleanup_calls>>

\* One message of chan.fetch_json(): one iteration of the loop.
WaitMsg ==
    /\ pc = "wait"
    /\ \E kind \in Kinds, action \in Actions, st \in Statuses :
          /\ wait_status' = StatusAfter(wait_status, kind, action, st)
          /\ got_startup' = (got_startup \/ IsStartupSuccess(kind, action, st))
          /\ IF Breaks(kind, action, st)
             THEN /\ ret_val' = WaitReturn(wait_status')
                  /\ AfterWait(WaitReturn(wait_status'))
             ELSE UNCHANGED <<pc, resultVars, status, cleanup_calls,
                              ret_val>>
    /\ UNCHANGED <<inputVars, cullVars, serverVars, orchestrate, fsVars, recovery, recovery_made,
                   cleanupVars, idx, probeVars, specVars, redis_running,
                   connected, busVars, tdsVars, tmsVars, chan, chan_seen,
                   reportVars, terminate_sent, sysinfo_sent, init_sent>>

\* chan.fetch_json() is exhausted: the for loop ends without a break.
WaitEnd ==
    /\ pc = "wait"
    /\ ret_val' = WaitReturn(wait_status)
    /\ AfterWait(WaitReturn(wait_status))
    /\ UNCHANGED <<inputVars, cullVars, serverVars, orchestrate, fsVars, recovery, recovery_made,
                   cleanupVars, idx, probeVars, specVars, redis_running,
                   connected, busVars, tdsVars, tmsVars, waitVars,
                   reportVars, terminate_sent, sysinfo_sent, init_sent>>

(***************************************************************************)
(* Steps 8 and after: the operational report, sysinfo and init.            *)
(***************************************************************************)
\* The operational reports redis_client.get(tm_data_key) may hold: for some
\* of the hosts of the group, whether the host has failed tools.  Nothing
\* makes the Tool Meisters of all the hosts report.
Reports == UNION {[hs -> BOOLEAN] : hs \in SUBSET Range(hostnames)}

\* ToolInstallFailures stopping at the first failing host.
ToolInstallFailures_First(report) ==
    IF \E h \in DOMAIN report : report[h]
    THEN {CHOOSE h \in DOMAIN report : report[h]}
    ELSE {}

\* tool_install_failures after the loop over tms.items(): every host of
\* the report whose failed_tools is not empty.
ToolInstallFailures(report) == {h \in DOMAIN report : report[h]}

\* json.loads(redis_client.get(tm_data_key)), the scan for failed tools
\* and the single raise after it.  The hosts of the report are not
\* compared with the hosts of the tool group.
FetchReport ==
    /\ pc = "report"
    /\ \/ Handle(INVALIDTMDATA) /\ UNCHANGED reportVars
       \/ \E report \in Reports :
             /\ tm_report' = report
             /\ tool_install_failures' = ToolInstallFailures(report)
             /\ IF ToolInstallFailures(report) # {}
                THEN Handle(TOOLINSTALLFAILURES)
                ELSE /\ pc' = "sysinfo"
                     /\ UNCHANGED <<resultVars, status, cleanup_calls>>
    /\ UNCHANGED <<inputVars, cullVars, serverVars, orchestrate, fsVars, recovery, recovery_made,
                   cleanupVars, idx, probeVars, specVars, redis_running,
                   connected, busVars, tdsVars, tmsVars, waitVars,
                   ret_val, terminate_sent, sysinfo_sent, init_sent>>

\* What start() does with the value client.publish(..., "sysinfo", sysinfo)
\* returned: a variant that gates the startup on it.
SysinfoResult_Gated(rv) ==
    IF rv # 0
    THEN Handle(INITFAILED)
    ELSE pc' = "tooldir" /\ UNCHANGED <<resultVars, status, cleanup_calls>>

\* What start() does with the value client.publish(..., "sysinfo", sysinfo)
\* returned: the call is a statement, its value is dropped, and the flow
\* goes on to the tool directory.
SysinfoResult(rv) ==
    pc' = "tooldir" /\ UNCHANGED <<resultVars, status, cleanup_calls>>

\* if sysinfo: create the directory and publish the sysinfo request; a
\* failure to create the directory is logged and the request is skipped.
Sysinfo ==
    /\ pc = "sysinfo"
    /\ IF cli.sysinfo = ""
       THEN UNCHANGED sysinfo_sent /\ SysinfoResult(0)
       ELSE \/ \* sysinfo_path.mkdir() raised
               UNCHANGED sysinfo_sent /\ SysinfoResult(0)
            \/ \E rv \in {0, 1} :
                  sysinfo_sent' = TRUE /\ SysinfoResult(rv)
    /\ UNCHANGED <<inputVars, cullVars, serverVars, orchestrate, fsVars, recovery,
                   recovery_made, cleanupVars, idx,
                   probeVars, specVars, redis_running, connected, busVars,
                   tdsVars, tmsVars, waitVars, ret_val, reportVars,
                   terminate_sent, init_sent>>

\* tool_dir.mkdir(exist_ok=True), then recovery.add(... rmtree(tool_dir)).
MakeToolDir ==
    /\ pc = "tooldir"
    /\ \/ Handle(EXCTOOLGROUPDIR) /\ UNCHANGED <<tool_dir, recovery>>
       \/ \* the directory existed before the run, or mkdir() creates it
          /\ tool_dir' \in {"preexisting", "created"}
          /\ recovery' = Append(recovery, Action("tooldir", ""))
          /\ pc' = "init"
          /\ UNCHANGED <<resultVars, status, cleanup_calls>>
    /\ UNCHANGED <<inputVars, cullVars, serverVars, orchestrate, tm_dir, recovery_made,
                   cleanupVars, idx, probeVars, specVars, redis_running,
                   connected, busVars, tdsVars, tmsVars, waitVars,
                   clientVars>>

\* ret_val = client.publish(..., "init", None), then `return ret_val`.
InitTools ==
    /\ pc = "init"
    /\ init_sent' = TRUE
    /\ \E rv \in {0, 1} :
          /\ ret_val' = rv
          /\ IF rv # 0
             THEN Handle(INITFAILED)
             ELSE Return(rv) /\ UNCHANGED <<status, cleanup_calls>>
    /\ UNCHANGED <<inputVars, cullVars, serverVars, orchestrate, fsVars, recovery, recovery_made,
                   cleanupVars, idx, probeVars, specVars, redis_running,
                   connected, busVars, tdsVars, tmsVars, waitVars,
                   reportVars, terminate_sent, sysinfo_sent>>

(***************************************************************************)
(* The rollback: recovery.cleanup() and the return that follows it.        *)
(***************************************************************************)
\* The key a registered "delete <host> Redis key" action deletes when it
\* runs: the lambda reads start()'s variable tm_param_key at that time.
KeyDeleted(a) == tm_param_key

\* The action cleanup() runs next: the one registered last.
NextAction(stack) == stack[Len(stack)]

\* EnterHandler of an except clause that returns without
\* recovery.cleanup().
EnterHandler_NoCleanup ==
    /\ pc = "handler"
    /\ pc' = "cleanup"
    /\ cleanup_calls' = cleanup_calls
    /\ recovery' = <<>>
    /\ idx' = 1
    /\ now' = 0
    /\ num_present' = 0
    /\ tms' = [h \in Hosts |-> ""]
    /\ tm_count' = 0
    /\ failures' = 0
    /\ successes' = 0
    /\ wait_status' = ""
    /\ tm_report' = [h \in {} |-> FALSE]
    /\ tool_install_failures' = {}
    /\ origin_host' = [h \in Hosts |-> ""]
    /\ origin_ip' = {}
    /\ UNCHANGED <<resultVars, inputVars, cullVars, serverVars, orchestrate, fsVars,
                   recovery_made, status, cleanupVars, ssh_sessions,
                   specVars, redis_running, connected, busVars, tds_running,
                   tds_attempted, tds_started, launched, joined, tm_running,
                   diagnosed,
                   tms_raised, chan, chan_seen, got_startup, ret_val,
                   terminate_sent,
                   sysinfo_sent, init_sent>>

\* The except clause of start() that caught the exception calls
\* recovery.cleanup().  The frames of start_tms_via_ssh(),
\* ToolDataSink.start() and ToolDataSink.wait() are gone with their locals,
\* and the locals of start() that nothing reads any more (the loop index,
\* the probe's origins, the report) are reset with them.
EnterHandler ==
    /\ pc = "handler"
    /\ pc' = "cleanup"
    /\ cleanup_calls' = cleanup_calls + 1
    /\ idx' = 1
    /\ now' = 0
    /\ num_present' = 0
    /\ tms' = [h \in Hosts |-> ""]
    /\ tm_count' = 0
    /\ failures' = 0
    /\ successes' = 0
    /\ wait_status' = ""
    /\ tm_report' = [h \in {} |-> FALSE]
    /\ tool_install_failures' = {}
    /\ origin_host' = [h \in Hosts |-> ""]
    /\ origin_ip' = {}
    /\ UNCHANGED <<resultVars, inputVars, cullVars, serverVars, orchestrate, fsVars, recovery,
                   recovery_made, status, cleanupVars, ssh_sessions,
                   specVars, redis_running, connected, busVars, tds_running,
                   tds_attempted, tds_started, launched, joined, tm_running,
                   diagnosed,
                   tms_raised, chan, chan_seen, got_startup, ret_val,
                   terminate_sent,
                   sysinfo_sent, init_sent>>

\* One registered action run by cleanup().  An action that raises has no
\* effect; the exception is logged and the next action runs.
CleanupStep ==
    /\ pc = "cleanup"
    /\ recovery # <<>>
    /\ LET a == NextAction(recovery) IN
       /\ recovery' = SubSeq(recovery, 1, Len(recovery) - 1)
       /\ cleanup_log' = Append(cleanup_log, a)
       /\ \/ /\ cleanup_faults < MaxCleanupFaults
             /\ cleanup_faults' = cleanup_faults + 1
             /\ UNCHANGED <<ssh_sessions, redis_running, bus, tds_running,
                            terminate_sent, tool_dir>>
          \/ /\ UNCHANGED cleanup_faults
             /\ ssh_sessions' = IF a.kind = "abort" THEN {} ELSE ssh_sessions
             /\ redis_running' = IF a.kind = "redis" THEN FALSE
                                 ELSE redis_running
             /\ bus' = CASE a.kind = "tmkey" -> BusDelete(bus, KeyDeleted(a))
                         [] a.kind = "tdskey" -> BusDelete(bus, TdsKey)
                         [] OTHER -> bus
             /\ tds_running' = IF a.kind = "tds" THEN FALSE ELSE tds_running
             /\ terminate_sent' = IF a.kind = "terminate" THEN TRUE
                                  ELSE terminate_sent
             /\ tool_dir' = IF a.kind = "tooldir" THEN "absent" ELSE tool_dir
    /\ UNCHANGED <<pc, resultVars, inputVars, cullVars, serverVars, orchestrate, tm_dir,
                   recovery_made, status, cleanup_calls, idx, origin_host,
                   origin_ip, specVars, connected, written, tm_param_key,
                   tds_attempted, tds_started, now, num_present, tmsVars,
                   waitVars, ret_val, reportVars, sysinfo_sent, init_sent>>

\* cleanup() has run every action: the except clause returns its status.
CleanupDone ==
    /\ pc = "cleanup"
    /\ recovery = <<>>
    /\ Return(status)
    /\ UNCHANGED <<inputVars, cullVars, serverVars, orchestrate, fsVars, recovery, recovery_made,
                   status, cleanup_calls, cleanupVars, idx, probeVars,
                   specVars, redis_running, connected, busVars, tdsVars,
                   tmsVars, waitVars, clientVars>>

(***************************************************************************)
(* A user interrupt (KeyboardInterrupt) between two steps.                 *)
(***************************************************************************)
\* Inside the outer try it is caught and handled like a failure; before
\* the try, and inside an except clause (while cleanup() runs), nothing
\* catches it.
Interrupt ==
    /\ pc \in PreTry \cup InTry \cup {"cleanup"}
    /\ IF pc \in InTry
       THEN Handle(KEYBOARDINTERRUPT)
       ELSE Escape /\ UNCHANGED <<status, cleanup_calls>>
    /\ UNCHANGED <<inputVars, cullVars, serverVars, orchestrate, fsVars, recovery, recovery_made,
                   cleanupVars, idx, probeVars, specVars, redis_running,
                   connected, busVars, tdsVars, tmsVars, waitVars,
                   clientVars>>

Next ==
    \/ LoadToolGroup
    \/ VerifyParams
    \/ LoadEnv
    \/ CreateTmDir
    \/ CreateRecovery
    \/ ProbeStart
    \/ ProbeWait
    \/ ProbeDone
    \/ ResolveServers
    \/ StartRedis
    \/ ConnectRedis
    \/ PushTmKey
    \/ PushTdsKey
    \/ TdsFork
    \/ TdsWaitChild
    \/ TdsPoll
    \/ TdsPidFile
    \/ RegisterTerminate
    \/ LaunchTm
    \/ JoinTm
    \/ CheckTms
    \/ WaitMsg
    \/ WaitEnd
    \/ FetchReport
    \/ Sysinfo
    \/ MakeToolDir
    \/ InitTools
    \/ EnterHandler
    \/ CleanupStep
    \/ CleanupDone
    \/ Interrupt

Spec == Init /\ [][Next]_vars

(***************************************************************************)
(* ToolDataSink.wait() on its own: the messages chan.fetch_json() yields   *)
(* are the input, drawn from every sequence of at most MaxMsgs messages.   *)
(* The generator is exhausted after them.                                  *)
(***************************************************************************)
Messages == [kind : Kinds, action : Actions, status : Statuses]

MsgSeqs == UNION {[1..n -> Messages] : n \in 0..MaxMsgs}

InitWait ==
    /\ pc = "wait"
    /\ outcome = "running"
    /\ ret = -1
    /\ hostnames = <<"localhost">>
    /\ cli = [orchestrate |-> "create", redis_server |-> "",
              tool_data_sink |-> "", sysinfo |-> ""]
    /\ orchestrate = TRUE
    /\ tm_dir = "created"
    /\ tool_dir = "unobserved"
    /\ recovery = <<>>
    /\ recovery_made = TRUE
    /\ status = -1
    /\ cleanup_calls = 0
    /\ cleanup_log = <<>>
    /\ cleanup_faults = 0
    /\ idx = 1
    /\ ssh_sessions = {}
    /\ origin_host = [h \in Hosts |-> ""]
    /\ origin_ip = {}
    /\ redis_server_spec = ""
    /\ tds_server_spec = ""
    /\ redis_running = TRUE
    /\ connected = TRUE
    /\ bus = <<>>
    /\ written = {}
    /\ tm_param_key = <<>>
    /\ tds_running = TRUE
    /\ tds_attempted = TRUE
    /\ tds_started = TRUE
    /\ now = 0
    /\ num_present = 0
    /\ tms = [h \in Hosts |-> ""]
    /\ tm_count = 0
    /\ failures = 0
    /\ successes = 0
    /\ launched = <<>>
    /\ joined = <<>>
    /\ tm_running = {}
    /\ diagnosed = {}
    /\ tms_raised = ""
    /\ wait_status = ""
    /\ chan \in MsgSeqs
    /\ chan_seen = <<>>
    /\ got_startup = FALSE
    /\ ret_val = -1
    /\ tm_report = [h \in {} |-> FALSE]
    /\ tool_install_failures = {}
    /\ terminate_sent = FALSE
    /\ sysinfo_sent = FALSE
    /\ init_sent = FALSE
    /\ dns = HostsFile
    /\ server = Unconstructed
    /\ running = FALSE
    /\ tds_killed = FALSE
    /\ spec_in = <<>>
    /\ endpoint = NoEndpoint
    /\ fs = NoFs
    /\ job = NoJob
    /\ ru = NoFrame

\* Everything ToolDataSink.wait() does not touch.
waitFrame ==
    <<resultVars, inputVars, cullVars, serverVars, orchestrate, fsVars, recovery, recovery_made,
      status, cleanup_calls, cleanupVars, idx, probeVars, specVars,
      redis_running, connected, busVars, tdsVars, tmsVars, reportVars,
      terminate_sent, sysinfo_sent, init_sent>>

\* One iteration of the loop, on the next message of the channel.
WaitFetch ==
    /\ pc = "wait"
    /\ chan # <<>>
    /\ LET data == Head(chan) IN
       /\ wait_status' =
             StatusAfter(wait_status, data.kind, data.action, data.status)
       /\ chan' = Tail(chan)
       /\ chan_seen' = Append(chan_seen, data)
       /\ got_startup' = (got_startup \/ IsStartupSuccess(data.kind, data.action,
                                                          data.status))
       /\ IF Breaks(data.kind, data.action, data.status)
          THEN /\ ret_val' = WaitReturn(wait_status')
               /\ pc' = "wait_returned"
          ELSE UNCHANGED <<pc, ret_val>>
    /\ UNCHANGED waitFrame

\* The channel yields nothing more: the loop ends and wait() returns.
WaitExhausted ==
    /\ pc = "wait"
    /\ chan = <<>>
    /\ ret_val' = WaitReturn(wait_status)
    /\ pc' = "wait_returned"
    /\ UNCHANGED <<waitFrame, waitVars>>

NextWait ==
    \/ WaitFetch
    \/ WaitExhausted

SpecWait == InitWait /\ [][NextWait]_vars

(***************************************************************************)
(* ToolDataSink.start() on its own, from the call in step 5 of start() to  *)
(* its return or raise.  The polling loop runs again as long as it has     *)
(* not ended: the process is not suspended between two iterations.         *)
(***************************************************************************)
\* The origin every remote host of the probe reported in these runs.
ProbedOrigin == "o1"

\* A specification of the caller, or the origin adopted in its place.
SpecOrOrigin(given, group) ==
    IF given = "" /\ RemoteIn(group) # {} THEN ProbedOrigin ELSE given

\* The stack when step 5 starts: what steps 1 to 4 registered.
RegisteredBeforeTds(group) ==
    <<Action("abort", ""), Action("redis", "")>>
    \o [i \in 1..Len(group) |-> Action("tmkey", group[i])]
    \o <<Action("tdskey", "")>>

\* The state of start() when it calls tool_data_sink.start().
InitTds ==
    /\ pc = "tds_fork"
    /\ outcome = "running"
    /\ ret = -1
    /\ hostnames \in HostSeqs \ {<<>>}
    /\ cli \in {c \in CliParams : c.orchestrate = "create"
                                    /\ c.sysinfo # "bad"}
    /\ orchestrate = TRUE
    /\ tm_dir = "created"
    /\ tool_dir = "unobserved"
    /\ recovery = RegisteredBeforeTds(hostnames)
    /\ recovery_made = TRUE
    /\ status = -1
    /\ cleanup_calls = 0
    /\ cleanup_log = <<>>
    /\ cleanup_faults = 0
    /\ idx = Len(hostnames) + 1
    /\ ssh_sessions = {}
    /\ origin_host = [h \in Hosts |->
                         IF h \in RemoteIn(hostnames) THEN ProbedOrigin
                         ELSE ""]
    /\ origin_ip = IF RemoteIn(hostnames) # {} THEN {ProbedOrigin} ELSE {}
    /\ redis_server_spec = SpecOrOrigin(cli.redis_server, hostnames)
    /\ tds_server_spec = SpecOrOrigin(cli.tool_data_sink, hostnames)
    /\ redis_running = TRUE
    /\ connected = TRUE
    /\ bus = [k \in {TmKey(h) : h \in Range(hostnames)} \cup {TdsKey} |->
                 IF k = TdsKey THEN "tds"
                 ELSE IF ~is_local(k[2]) THEN ProbedOrigin
                 ELSE IF tds_server_spec = "" THEN "full_hostname"
                 ELSE tds_server_spec]
    /\ written = DOMAIN bus
    /\ tm_param_key = TmKey(hostnames[Len(hostnames)])
    /\ tds_running = FALSE
    /\ tds_attempted = FALSE
    /\ tds_started = FALSE
    /\ now = 0
    /\ num_present = 0
    /\ tms = [h \in Hosts |-> ""]
    /\ tm_count = 0
    /\ failures = 0
    /\ successes = 0
    /\ launched = <<>>
    /\ joined = <<>>
    /\ tm_running = {}
    /\ diagnosed = {}
    /\ tms_raised = ""
    /\ wait_status = ""
    /\ chan = <<>>
    /\ chan_seen = <<>>
    /\ got_startup = FALSE
    /\ ret_val = -1
    /\ tm_report = [h \in {} |-> FALSE]
    /\ tool_install_failures = {}
    /\ terminate_sent = FALSE
    /\ sysinfo_sent = FALSE
    /\ init_sent = FALSE
    /\ dns = HostsFile
    /\ server = Unconstructed
    /\ running = FALSE
    /\ tds_killed = FALSE
    /\ spec_in = <<>>
    /\ endpoint = NoEndpoint
    /\ fs = NoFs
    /\ job = NoJob
    /\ ru = NoFrame

NextTds ==
    \/ TdsFork
    \/ TdsWaitChild
    \/ TdsPoll
    \/ TdsPidFile

SpecTds == InitTds /\ [][NextTds]_vars /\ WF_vars(TdsPoll)

(***************************************************************************)
(* The claims.                                                             *)
(***************************************************************************)
\* Every host of the tool group, as a set.
GroupHosts == Range(hostnames)

\* start() returned after a rollback in which every action ran and none
\* raised.
CleanRollback ==
    /\ pc = "done"
    /\ outcome = "returned"
    /\ cleanup_calls = 1
    /\ cleanup_faults = 0

\* C1: in start_tms_via_ssh, when the join loop has finished,
\* successes + failures equals the number of hosts of the group, whatever
\* the per-host outcomes were, so the assertion that follows never fails.
C1_TallyAddsUp ==
    (pc = "join" /\ idx > Len(hostnames))
        => successes + failures = Len(hostnames)

\* C2: start_tms_via_ssh raises StartTmsErr(TMFAILURES) exactly when the
\* launch or the join of at least one host failed and returns normally
\* exactly when every host succeeded; in the failing case start() returns
\* TMFAILURES, after the rollback.
C2_TmFailuresIffHostFailed ==
    /\ tms_raised # "" =>
          /\ (tms_raised = "TMFAILURES") <=> (GroupHosts \ tm_running # {})
          /\ (tms_raised = "none") <=> (GroupHosts \subseteq tm_running)
    /\ (pc = "done" /\ outcome = "returned" /\ GroupHosts \ tm_running # {}
           /\ tms_raised # "")
          => (ret = TMFAILURES /\ cleanup_calls = 1)

\* The per-host keys this run stored.
TmKeysWritten == written \ {TdsKey}

\* C3: after the rollback that follows a failure with k >= 2 per-host keys
\* written, each of these keys is gone from the bus, and so is the
\* aggregate key if it was written.
C3_AllKeysDeleted ==
    (CleanRollback /\ Cardinality(TmKeysWritten) >= 2)
        => written \cap DOMAIN bus = {}

\* The actions registered by a run that got as far as the tool directory,
\* last registered first.
AllActionsReversed ==
    <<Action("tooldir", ""), Action("terminate", ""), Action("tds", ""),
      Action("tdskey", "")>>
    \o [i \in 1..Len(hostnames) |->
            Action("tmkey", hostnames[Len(hostnames) + 1 - i])]
    \o <<Action("redis", ""), Action("abort", "")>>

\* start() failed, with every registration made, and the rollback is over.
FailedAfterAllRegistered ==
    /\ pc = "done"
    /\ outcome = "returned"
    /\ orchestrate
    /\ tool_dir # "unobserved"
    /\ ret # SUCCESS

\* C4: when start() fails after every registration was made, the rollback
\* runs the actions in the reverse of their registration order (tool
\* directory, terminate, data-sink, aggregate key, per-host keys last host
\* first, Redis, SSH sessions), and all of them even when one raises.
C4_RollbackInReverseOrder ==
    FailedAfterAllRegistered => cleanup_log = AllActionsReversed

C4_Witness ==
    /\ FailedAfterAllRegistered
    /\ Len(hostnames) = 2
    /\ cleanup_faults = 1
    /\ ret = INITFAILED
    /\ cleanup_log = AllActionsReversed

\* C5: if the data-sink daemonized and ToolDataSink.start() then failed
\* (timeout, publish error or missing PID file), the rollback stops the
\* data-sink: none created by this run is running after the failed start().
C5_FailedTdsStartStopsTds ==
    (CleanRollback /\ tds_attempted /\ ~tds_started
        /\ ret \in {TDSSTARTUPTIMEOUT, TDSLOGPUBFAILED, TDSWAITFAILURE})
        => ~tds_running

NothingAcquired ==
    /\ tm_dir = "absent"
    /\ tool_dir = "unobserved"
    /\ ~recovery_made
    /\ recovery = <<>>
    /\ cleanup_calls = 0
    /\ cleanup_log = <<>>
    /\ ssh_sessions = {}
    /\ ~redis_running
    /\ ~connected
    /\ DOMAIN bus = {}
    /\ written = {}
    /\ ~tds_attempted
    /\ ~tds_running
    /\ launched = <<>>
    /\ tm_running = {}
    /\ ~terminate_sent /\ ~sysinfo_sent /\ ~init_sent

\* C7: with a tool group that loads and has no hosts, start() returns
\* SUCCESS straight after the load, whatever the other CLI parameters are,
\* with nothing created, started, connected, written, registered or run.
C7_EmptyGroupReturnsSuccess ==
    (hostnames = <<>> /\ pc # "load") =>
        /\ pc = "done"
        /\ NothingAcquired
        /\ (outcome = "returned" /\ ret \notin {BADTOOLGROUP, TOOLGROUPEXC})
              => ret = SUCCESS

C7_Witness ==
    /\ hostnames = <<>>
    /\ pc = "done"
    /\ outcome = "returned"
    /\ ret = SUCCESS
    /\ cli.orchestrate = "bogus"
    /\ cli.sysinfo = "bad"

\* The keys start() has to write: one per host and the aggregate one.
AllKeys == {TmKey(h) : h \in GroupHosts} \cup {TdsKey}

\* C8: every per-host key and the aggregate key has been written before
\* the data-sink start is attempted and before any Tool Meister launch is
\* issued; after a failed key write neither is started.
C8_KeysBeforeTdsAndTms ==
    /\ (tds_attempted \/ launched # <<>>) => AllKeys \subseteq written
    /\ status \in {REDISTMKEYFAILED, REDISTDSKEYFAILED} =>
          (~tds_attempted /\ ~tds_running /\ launched = <<>>
              /\ tm_running = {})

C8_Witness ==
    /\ tds_attempted
    /\ launched # <<>>
    /\ Len(hostnames) = 2
    /\ AllKeys \subseteq written

\* C9: in start_tms_via_ssh a launch has been issued for every host before
\* the first join is performed, and a launch that raised does not stop
\* the launches of the hosts after it.
C9_AllLaunchedBeforeJoin ==
    /\ pc = "launch" =>
          (launched = SubSeq(hostnames, 1, idx - 1) /\ joined = <<>>)
    /\ (pc = "join" \/ joined # <<>>) => launched = hostnames

C9_Witness ==
    /\ pc = "join"
    /\ joined # <<>>
    /\ Len(hostnames) = 2
    /\ tms[hostnames[1]] = "failed"
    /\ launched = hostnames

\* The message that reports a successful startup.
StartupSuccess == [kind |-> "ds", action |-> "startup", status |-> "success"]

\* C10: ToolDataSink.wait returns 0 only if a message with kind "ds",
\* action "startup" and status "success" was received; a message that
\* lacks a field or has another kind or action has no influence on the
\* value returned, also when the messages end without a startup message.
C10_ZeroOnlyOnStartupSuccess ==
    (pc = "wait_returned" /\ ret_val = 0)
        => \E i \in DOMAIN chan_seen : chan_seen[i] = StartupSuccess

\* C11: the polling loop of ToolDataSink.start always terminates.  It ends
\* at the first publish that returns a non-zero count, with the PID file
\* check next; it fails with TDSSTARTUPTIMEOUT only when the last publish
\* returned 0 and the ceiling has passed, never after a non-zero count;
\* it fails with TDSLOGPUBFAILED when a publish raises; and every
\* iteration that goes round again finds the clock advanced, the ceiling
\* not yet passed.
C11_PollLoopTerminates ==
    /\ (pc = "tds_poll") ~> (pc # "tds_poll")
    /\ [][pc = "tds_poll" =>
            /\ num_present' # 0 => pc' = "tds_pid"
            /\ pc' = "tds_pid" => (num_present' # 0 /\ status' = status)
            /\ pc' = "tds_poll" =>
                  (num_present' = 0 /\ ~TimedOut(now) /\ now' > now)
            /\ pc' = "handler" =>
                  /\ num_present' = 0
                  /\ status' \in {TDSSTARTUPTIMEOUT, TDSLOGPUBFAILED}
                  /\ status' = TDSSTARTUPTIMEOUT => TimedOut(now)]_vars

C11_Witness ==
    /\ pc = "handler"
    /\ status = TDSSTARTUPTIMEOUT
    /\ tds_running
    /\ now = TimeoutTicks + 1
    /\ num_present = 0

\* C12: with --orchestrate=existing and both server specifications, a
\* valid environment and a working bus, start() pushes the per-host and
\* the aggregate blobs (and goes on to return 0): a step of the push
\* fails only when a write to the bus raises or the user interrupts.
C12_ExistingModePushesBlobs ==
    [][(pc = "push" /\ cli.orchestrate = "existing" /\ pc' = "handler")
          => status' \in {REDISTMKEYFAILED, REDISTDSKEYFAILED,
                          KEYBOARDINTERRUPT}]_vars

\* No trace of the SSH probe, the tm directory, a Redis server, a data-sink
\* or a Tool Meister of this run.
NothingOrchestrated ==
    /\ tm_dir = "absent"
    /\ ssh_sessions = {}
    /\ origin_ip = {}
    /\ Action("abort", "") \notin Range(recovery) \cup Range(cleanup_log)
    /\ Action("redis", "") \notin Range(recovery) \cup Range(cleanup_log)
    /\ ~redis_running
    /\ ~tds_attempted
    /\ ~tds_running
    /\ launched = <<>>
    /\ tm_running = {}

C14_ZeroOnlyOnFullSuccess ==
    (pc = "done" /\ outcome = "returned") =>
        /\ ret = SUCCESS =>
              \/ hostnames = <<>>
              \/ /\ got_startup
                 /\ \A h \in DOMAIN tm_report : ~tm_report[h]
                 /\ init_sent
                 /\ ret_val = 0
        /\ cleanup_calls > 0 => ret # SUCCESS

\* C15: a user interrupt arriving at any point of start(), the validation
\* and the creation of the tm directory included, is caught: start() goes
\* on to the rollback and returns KEYBOARDINTERRUPT.
C15_InterruptAlwaysCaught ==
    [][Interrupt => (pc' = "handler" /\ status' = KEYBOARDINTERRUPT)]_vars

\* C16: start() returns success only if every host of the tool group is in
\* the operational report it fetched.
C16_SuccessNeedsEveryHostReported ==
    (pc = "done" /\ outcome = "returned" /\ ret = SUCCESS)
        => GroupHosts \subseteq DOMAIN tm_report

\* The hosts of the report read that have failed tools.
FailingHosts == {h \in DOMAIN tm_report : tm_report[h]}

\* C17: when the report lists failed tools for a host, start() fails with
\* TOOLINSTALLFAILURES, every failing host of the report collected before
\* the one raise, and after the rollback returns that code, the sysinfo
\* and init requests never issued; a report that cannot be fetched or
\* parsed gives INVALIDTMDATA the same way.
C17_FailedToolsAreFatal ==
    /\ [][pc = "report" =>
             /\ FailingHosts' # {} =>
                   /\ pc' = "handler"
                   /\ status' = TOOLINSTALLFAILURES
                   /\ tool_install_failures' = FailingHosts'
             /\ (pc' = "handler" /\ status' # KEYBOARDINTERRUPT) =>
                   IF FailingHosts' # {}
                   THEN status' = TOOLINSTALLFAILURES
                   ELSE status' = INVALIDTMDATA]_vars
    /\ [](status \in {TOOLINSTALLFAILURES, INVALIDTMDATA} =>
             /\ ~sysinfo_sent /\ ~init_sent
             /\ (pc = "done" /\ outcome = "returned") =>
                   (ret = status /\ cleanup_calls = 1))

C17_Witness ==
    /\ pc = "handler"
    /\ status = TOOLINSTALLFAILURES
    /\ Len(hostnames) = 2
    /\ tool_install_failures = GroupHosts

\* C18: once the cleanup stack exists, every failure raised inside start()
\* (a CleanupTime, or an unexpected exception such as the failed assertion
\* of start_tms_via_ssh or the read of an unset variable) is caught by an
\* except clause of start(), which runs the rollback and returns a
\* non-zero code, INITFAILED for the unexpected ones; only a user
\* interrupt can leave start() as an exception.
C18_FailuresCaughtAndRolledBack ==
    /\ [][/\ (recovery_made /\ outcome = "running" /\ outcome' = "raised")
                => Interrupt
          /\ (pc \in InTry /\ pc' \notin InTry \cup {"done"})
                => (pc' = "handler" /\ status' > 0)
          /\ (pc = "join" /\ tms_raised' = "AssertionError")
                => (pc' = "handler" /\ status' = INITFAILED)
          /\ (pc = "push" /\ ~orchestrate /\ idx <= Len(hostnames)
                 /\ ~Interrupt)
                => (pc' = "handler" /\ status' = INITFAILED)
          /\ pc = "handler" => (pc' = "cleanup" /\ cleanup_calls' = 1)]_vars
    /\ []((pc = "done" /\ outcome = "returned" /\ cleanup_calls > 0)
             => (ret = status /\ ret > 0))

C18_Witness ==
    /\ pc = "done"
    /\ outcome = "returned"
    /\ tms_raised = "AssertionError"
    /\ ret = INITFAILED
    /\ cleanup_calls = 1
    /\ recovery = <<>>

\* The codes start() returns for an input or validation error.
ValidationCodes ==
    {BADSYSINFO, INVALIDORCHESTRATE, MISSINGPARAMS, EXCCREATETMDIR,
     EXCCREATEUUID, BADREDISPORT, BADREDISHOST, BADWSGIPORT, BADWSGIHOST,
     BADTOOLMETADATA} \cup EnvErrors

\* C19: whenever start() returns an input or validation error code, no
\* resource was acquired: no directory this run created remains, no remote
\* session was opened, no process was started and no bus key was written.
C19_ValidationErrorsAcquireNothing ==
    (pc = "done" /\ outcome = "returned" /\ ret \in ValidationCodes) =>
        /\ tm_dir = "absent"
        /\ tool_dir = "unobserved"
        /\ ssh_sessions = {}
        /\ (Action("abort", "") \in Range(cleanup_log)
               => RemoteIn(hostnames) = {})
        /\ ~redis_running /\ ~tds_attempted /\ ~tds_running
        /\ launched = <<>> /\ tm_running = {}
        /\ written = {}

\* The origin the first remote host of the group reported to the probe.
FirstOrigin ==
    LET k == CHOOSE i \in DOMAIN hostnames :
                 /\ ~is_local(hostnames[i])
                 /\ \A j \in 1..(i - 1) : is_local(hostnames[j])
    IN  origin_host[hostnames[k]]

\* C20: a discovered origin is an endpoint host only where the caller gave
\* no specification.  With an explicit data-sink (or Redis) specification
\* the server keeps the host supplied, and the data-sink address of every
\* per-host blob is the supplied host; with none, the first origin
\* discovered is adopted for both servers.
C20_OriginOnlyAsDefault ==
    (orchestrate /\ pc \in InTry \ {"probe", "probe_wait"}) =>
        /\ cli.redis_server # "" => redis_server_spec = cli.redis_server
        /\ cli.tool_data_sink # "" =>
              /\ tds_server_spec = cli.tool_data_sink
              /\ \A h \in GroupHosts :
                    TmKey(h) \in DOMAIN bus
                        => bus[TmKey(h)] = cli.tool_data_sink
        /\ (cli.redis_server = "" /\ RemoteIn(hostnames) # {})
              => redis_server_spec = FirstOrigin
        /\ (cli.tool_data_sink = "" /\ RemoteIn(hostnames) # {})
              => tds_server_spec = FirstOrigin

\* C21: in orchestrate mode, a probe of a remote host that cannot be issued,
\* or that returns a non-zero status or an empty output, makes start()
\* return REMOTENOTREACHABLE after the rollback (a missing ssh command has
\* its own code, and a user interrupt its own); and whenever the status is
\* REMOTENOTREACHABLE no Redis server, data sink or Tool Meister was
\* started and no bus key was written.
C21_ProbeFailureIsNotReachable ==
    /\ [][(pc \in {"probe", "probe_wait"} /\ pc' = "handler")
             => status' \in {REMOTENOTREACHABLE, MISSINGSSHCMD,
                             KEYBOARDINTERRUPT}]_vars
    /\ [](status = REMOTENOTREACHABLE =>
             /\ orchestrate
             /\ ~redis_running /\ ~tds_attempted /\ ~tds_running
             /\ launched = <<>> /\ tm_running = {}
             /\ written = {}
             /\ (pc = "done" /\ outcome = "returned")
                    => (ret = REMOTENOTREACHABLE /\ cleanup_calls = 1))

\* C22: the sysinfo request is best effort: whatever it returns, and whether
\* or not its directory could be created, start() goes on to the tool
\* directory with no status set and nothing returned, and once the tool
\* directory is made the init request is issued; start() then returns 0
\* when the init request returned 0, and INITFAILED after the rollback
\* when it returned anything else.
C22_SysinfoBestEffortInitGates ==
    /\ [][/\ (pc = "sysinfo" /\ ~Interrupt)
                => (pc' = "tooldir" /\ UNCHANGED <<resultVars, status>>)
          /\ (pc = "init" /\ ~Interrupt) => init_sent'
          /\ (pc = "init" /\ pc' = "done")
                => (ret_val' = 0 /\ ret' = 0 /\ cleanup_calls' = 0)
          /\ (pc = "init" /\ ret_val' # 0)
                => (pc' = "handler" /\ status' = INITFAILED)]_vars
    /\ []((pc = "done" /\ outcome = "returned" /\ init_sent) =>
             /\ ret = IF ret_val = 0 THEN SUCCESS ELSE INITFAILED
             /\ ret_val # 0 => (cleanup_calls = 1 /\ recovery = <<>>))

C22_Witness ==
    /\ pc = "done"
    /\ outcome = "returned"
    /\ cli.sysinfo # ""
    /\ ~sysinfo_sent
    /\ init_sent
    /\ ret_val # 0
    /\ ret = INITFAILED

\* C23: in ToolDataSink.start a first-generation child that exits non-zero
\* or is killed by a signal is reported as TDSWAITFAILURE, and
\* TDSFORKFAILED is reported only when the fork itself fails; in both
\* cases the readiness polling is never started.
C23_ChildFailureIsWaitFailure ==
    [][/\ (pc = "tds_child" /\ pc' = "handler" /\ ~Interrupt)
             => status' = TDSWAITFAILURE
       /\ status' = TDSFORKFAILED => pc \in {"tds_fork", "handler",
                                             "cleanup", "done"}
       /\ (pc \in {"tds_fork", "tds_child"} /\ pc' = "handler")
             => (~tds_running' /\ ~tds_started' /\ now' = 0)]_vars

(***************************************************************************)
(* RedisServer.start alone, up to the list of names the server binds to:   *)
(* the host and bind host of the server object and the name resolution     *)
(* are drawn from bounded sets, the rest is the state in which start()     *)
(* calls redis_server.start(tm_dir).                                       *)
(***************************************************************************)
\* bind_hostnames_l with no regard for a host that differs from the bind
\* host.
BindHostnames_NoHostCheck(host, bind_host, d) ==
    IF bind_host = "0.0.0.0" THEN <<bind_host>>
    ELSE IF d["localhost"] = "" THEN <<bind_host>>
    ELSE IF d[bind_host] # d["localhost"] THEN <<bind_host, "localhost">>
    ELSE <<bind_host>>

\* bind_hostnames_l as RedisServer.start builds it, d being what
\* socket.gethostbyname answers.
BindHostnames(host, bind_host, d) ==
    IF host # bind_host THEN <<bind_host>>
    ELSE IF bind_host = "0.0.0.0" THEN <<bind_host>>
    ELSE IF d["localhost"] = "" THEN <<bind_host>>
    ELSE IF d[bind_host] # d["localhost"] THEN <<bind_host, "localhost">>
    ELSE <<bind_host>>

\* self.local_host as RedisServer.start leaves it.
LocalHost(host, bind_host, d) ==
    IF host # bind_host THEN host
    ELSE IF bind_host = "0.0.0.0" THEN "127.0.0.1"
    ELSE IF d["localhost"] = "" THEN host
    ELSE IF d[bind_host] # d["localhost"] THEN "localhost"
    ELSE host

\* The state of start() when it calls redis_server.start(tm_dir), for a
\* group of the local host alone and a Redis specification of the caller.
InitBind ==
    /\ pc = "redis"
    /\ outcome = "running"
    /\ ret = -1
    /\ hostnames = <<"localhost">>
    /\ cli = [orchestrate |-> "create", redis_server |-> "spec",
              tool_data_sink |-> "", sysinfo |-> ""]
    /\ orchestrate = TRUE
    /\ tm_dir = "created"
    /\ tool_dir = "unobserved"
    /\ recovery = <<Action("abort", "")>>
    /\ recovery_made = TRUE
    /\ status = -1
    /\ cleanup_calls = 0
    /\ cleanup_log = <<>>
    /\ cleanup_faults = 0
    /\ idx = 2
    /\ ssh_sessions = {}
    /\ origin_host = [h \in Hosts |-> ""]
    /\ origin_ip = {}
    /\ redis_server_spec = "spec"
    /\ tds_server_spec = ""
    /\ redis_running = FALSE
    /\ connected = FALSE
    /\ bus = <<>>
    /\ written = {}
    /\ tm_param_key = <<>>
    /\ tds_running = FALSE
    /\ tds_attempted = FALSE
    /\ tds_started = FALSE
    /\ now = 0
    /\ num_present = 0
    /\ tms = [h \in Hosts |-> ""]
    /\ tm_count = 0
    /\ failures = 0
    /\ successes = 0
    /\ launched = <<>>
    /\ joined = <<>>
    /\ tm_running = {}
    /\ diagnosed = {}
    /\ tms_raised = ""
    /\ wait_status = ""
    /\ chan = <<>>
    /\ chan_seen = <<>>
    /\ got_startup = FALSE
    /\ ret_val = -1
    /\ tm_report = [h \in {} |-> FALSE]
    /\ tool_install_failures = {}
    /\ terminate_sent = FALSE
    /\ sysinfo_sent = FALSE
    /\ init_sent = FALSE
    /\ dns \in Resolutions
    /\ \E h \in Names, b \in Names :
          server = [Unconstructed EXCEPT !.host = h, !.bind_host = b]
    /\ running = FALSE
    /\ tds_killed = FALSE
    /\ spec_in = <<>>
    /\ endpoint = NoEndpoint
    /\ fs = NoFs
    /\ job = NoJob
    /\ ru = NoFrame

\* RedisServer.start from its entry to bind_host_names: both names are
\* resolved (NOIP when one has no address), then the list is built.
RedisBind ==
    /\ pc = "redis"
    /\ IF dns[server.bind_host] = "" \/ dns[server.host] = ""
       THEN Handle(NOIP) /\ UNCHANGED server
       ELSE /\ server' =
                  [server EXCEPT
                     !.local_host =
                        LocalHost(server.host, server.bind_host, dns),
                     !.bind_hostnames_l =
                        BindHostnames(server.host, server.bind_host, dns)]
            /\ pc' = "redis_conf"
            /\ UNCHANGED <<resultVars, status, cleanup_calls>>
    /\ UNCHANGED <<inputVars, cullVars, spec_in, endpoint, dns, running, tds_killed, orchestrate,
                   fsVars, recovery,
                   recovery_made, cleanupVars, idx, probeVars, specVars,
                   redis_running, connected, busVars, tdsVars, tmsVars,
                   waitVars, clientVars>>

SpecBind == InitBind /\ [][RedisBind]_vars

\* C24, as claimed: "localhost" is in the bind list exactly when the bind
\* host does not resolve to the address of localhost and is not 0.0.0.0;
\* otherwise the list is the bind host alone.
C24_LocalhostBoundAsClaimed ==
    pc = "redis_conf" =>
        server.bind_hostnames_l =
            IF /\ dns[server.bind_host] # dns["localhost"]
               /\ server.bind_host # "0.0.0.0"
            THEN <<server.bind_host, "localhost">>
            ELSE <<server.bind_host>>

\* C24, amended: "localhost" is in the bind list exactly when the host and
\* the bind host are the same name, that name is not 0.0.0.0, localhost
\* has an address, and the bind host resolves to another address;
\* otherwise the list is the bind host alone.  A list with "localhost"
\* never names two hosts of the same address.
C24_LocalhostBound ==
    pc = "redis_conf" =>
        /\ server.bind_hostnames_l =
              IF /\ server.host = server.bind_host
                 /\ server.bind_host # "0.0.0.0"
                 /\ dns["localhost"] # ""
                 /\ dns[server.bind_host] # dns["localhost"]
              THEN <<server.bind_host, "localhost">>
              ELSE <<server.bind_host>>
        /\ Len(server.bind_hostnames_l) = 2 =>
              dns[server.bind_hostnames_l[1]]
                 # dns[server.bind_hostnames_l[2]]

C24_Witness ==
    /\ pc = "redis_conf"
    /\ server.host # server.bind_host
    /\ server.bind_host # "0.0.0.0"
    /\ dns["localhost"] # ""
    /\ dns[server.bind_host] # dns["localhost"]
    /\ server.bind_hostnames_l = <<server.bind_host>>

(***************************************************************************)
(* ToolDataSink.shutdown_tds alone, as the "stop Tool Data Sink" action of *)
(* the rollback runs it: wait_for_pid polls the daemon, which may exit at  *)
(* any time, and self.kill() follows when it is still there.  The clock    *)
(* `now` counts ticks since wait_for_pid set its timeout, TimeoutTicks     *)
(* standing for _TDS_STARTUP_TIMEOUT.                                      *)
(***************************************************************************)
\* The state of start() when the rollback of an interrupt that followed
\* tool_data_sink.start() calls shutdown_tds.
InitShutdown ==
    /\ pc = "shutdown_tds"
    /\ outcome = "running"
    /\ ret = -1
    /\ hostnames \in HostSeqs \ {<<>>}
    /\ cli \in {c \in CliParams : c.orchestrate = "create"
                                    /\ c.sysinfo # "bad"}
    /\ orchestrate = TRUE
    /\ tm_dir = "created"
    /\ tool_dir = "unobserved"
    /\ recovery = RegisteredBeforeTds(hostnames) \o <<Action("tds", "")>>
    /\ recovery_made = TRUE
    /\ status = KEYBOARDINTERRUPT
    /\ cleanup_calls = 1
    /\ cleanup_log = <<>>
    /\ cleanup_faults = 0
    /\ idx = 1
    /\ ssh_sessions = {}
    /\ origin_host = [h \in Hosts |-> ""]
    /\ origin_ip = {}
    /\ redis_server_spec = SpecOrOrigin(cli.redis_server, hostnames)
    /\ tds_server_spec = SpecOrOrigin(cli.tool_data_sink, hostnames)
    /\ redis_running = TRUE
    /\ connected = TRUE
    /\ bus = [k \in {TmKey(h) : h \in Range(hostnames)} \cup {TdsKey} |->
                 IF k = TdsKey THEN "tds"
                 ELSE IF ~is_local(k[2]) THEN ProbedOrigin
                 ELSE IF tds_server_spec = "" THEN "full_hostname"
                 ELSE tds_server_spec]
    /\ written = DOMAIN bus
    /\ tm_param_key = TmKey(hostnames[Len(hostnames)])
    /\ tds_running = TRUE
    /\ tds_attempted = TRUE
    /\ tds_started = TRUE
    /\ now = 0
    /\ num_present = 0
    /\ tms = [h \in Hosts |-> ""]
    /\ tm_count = 0
    /\ failures = 0
    /\ successes = 0
    /\ launched = <<>>
    /\ joined = <<>>
    /\ tm_running = {}
    /\ diagnosed = {}
    /\ tms_raised = ""
    /\ wait_status = ""
    /\ chan = <<>>
    /\ chan_seen = <<>>
    /\ got_startup = FALSE
    /\ ret_val = -1
    /\ tm_report = [h \in {} |-> FALSE]
    /\ tool_install_failures = {}
    /\ terminate_sent = FALSE
    /\ sysinfo_sent = FALSE
    /\ init_sent = FALSE
    /\ dns = HostsFile
    /\ server = Unconstructed
    /\ running = TRUE
    /\ tds_killed = FALSE
    /\ spec_in = <<>>
    /\ endpoint = NoEndpoint
    /\ fs = NoFs
    /\ job = NoJob
    /\ ru = NoFrame

\* shutdown_tds calling self.kill() whatever wait_for_pid returned.
KillIssued_Always(r) == TRUE

\* `if self.wait_for_pid(self.get_pid()): self.kill(status)`, r being what
\* wait_for_pid returned.
KillIssued(r) == r

\* time.time() >= timeout, t being the ticks since timeout was set.
ShutdownTimedOut(t) == t >= TimeoutTicks

\* The data-sink daemon exits on its own while shutdown_tds polls it:
\* os.kill(pid, 0) raises ProcessLookupError from then on.
TdsExit ==
    /\ pc = "shutdown_tds"
    /\ tds_running
    /\ tds_running' = FALSE
    /\ UNCHANGED <<pc, resultVars, inputVars, cullVars, spec_in, endpoint, dns, server, running,
                   tds_killed, orchestrate, fsVars, recovery, recovery_made,
                   status, cleanup_calls, cleanupVars, idx, probeVars,
                   specVars, redis_running, connected, busVars,
                   tds_attempted, tds_started, now, num_present, tmsVars,
                   waitVars, clientVars>>

\* One iteration of the loop of wait_for_pid and, when the loop ends, the
\* rest of shutdown_tds.
ShutdownPoll ==
    /\ pc = "shutdown_tds"
    /\ running' = tds_running
    /\ IF running' /\ ~ShutdownTimedOut(now)
       THEN /\ now' \in SleepUntil(now)
            /\ UNCHANGED <<pc, tds_running, tds_killed>>
       ELSE /\ pc' = "shutdown_done"
            /\ IF KillIssued(running')
               THEN tds_killed' = TRUE /\ tds_running' = FALSE
               ELSE UNCHANGED <<tds_killed, tds_running>>
            /\ UNCHANGED now
    /\ UNCHANGED <<resultVars, inputVars, cullVars, spec_in, endpoint, dns, server, orchestrate, fsVars,
                   recovery, recovery_made, status, cleanup_calls,
                   cleanupVars, idx, probeVars, specVars, redis_running,
                   connected, busVars, tds_attempted, tds_started,
                   num_present, tmsVars, waitVars, clientVars>>

NextShutdown ==
    \/ ShutdownPoll
    \/ TdsExit

SpecShutdown ==
    InitShutdown /\ [][NextShutdown]_vars /\ WF_vars(ShutdownPoll)

\* C25: shutdown_tds always comes to an end, polling the daemon only while
\* the ceiling is not reached and with the clock advancing between two
\* polls; when it ends, kill was issued exactly when the last poll found
\* the daemon alive, and no kill is issued for a daemon that was gone when
\* the polling ended.
C25_ShutdownPollsThenKills ==
    /\ (pc = "shutdown_tds") ~> (pc = "shutdown_done")
    /\ [](pc \in {"shutdown_tds", "shutdown_done"}
             => now <= TimeoutTicks + 1)
    /\ [][(pc = "shutdown_tds" /\ pc' = "shutdown_tds" /\ running' # running)
             => FALSE]_vars
    /\ [][(pc = "shutdown_tds" /\ pc' = "shutdown_tds" /\ now' # now)
             => (now' > now /\ now < TimeoutTicks /\ running')]_vars
    /\ [][(pc = "shutdown_tds" /\ pc' = "shutdown_done")
             => /\ tds_killed' = tds_running
                /\ ~tds_running => UNCHANGED now
                /\ tds_running => now >= TimeoutTicks]_vars
    /\ [](pc = "shutdown_done" => (tds_killed = running /\ ~tds_running))

C25_Witness ==
    /\ pc = "shutdown_done"
    /\ now > 0
    /\ now < TimeoutTicks
    /\ ~running
    /\ ~tds_killed

\* C26: once the rollback has begun it runs every registered action: from
\* the position where recovery.cleanup() executes, start() leaves only
\* with the stack emptied, by returning, and with the status for which the
\* rollback began; a user interrupt arriving meanwhile changes none of it.
C26_RollbackNotCancellable ==
    [][pc = "cleanup" =>
          /\ pc' \in {"cleanup", "done"}
          /\ status' = status
          /\ Len(recovery') <= Len(recovery)
          /\ pc' = "done" => /\ recovery = <<>>
                             /\ outcome' = "returned"
                             /\ ret' = status]_vars

(***************************************************************************)
(* The construction of a server object from its specification string, and  *)
(* the assertion at the top of its start().  BaseServer.__init__ is not    *)
(* part of the sources at hand: the resolution of the string follows the   *)
(* grammar of the specification document,                                  *)
(*     [[bindhost][:bindport]][;[connhost][:connport]]                     *)
(* over strings of a letter, a digit, the colon and the semicolon.         *)
(***************************************************************************)
MaxSpecLen == 8
def_redis_port == 17001
def_wsgi_port == 8080
MaxPort == 65535

SpecChars == {"a", "7", ":", ";"}

SpecStrings == UNION {[1..n -> SpecChars] : n \in 0..MaxSpecLen}

\* full_hostname, the default host name start() gives to both constructors.
DefHostName == <<"a", "a">>

\* How many times the character c occurs in s, and where it occurs first.
Count(s, c) == Cardinality({i \in DOMAIN s : s[i] = c})
First(s, c) ==
    CHOOSE i \in DOMAIN s : s[i] = c /\ \A j \in 1..(i - 1) : s[j] # c

\* The number a string of digits denotes, and the string denoting a number.
DigitOf(c) == IF c = "7" THEN 7 ELSE 0
CharOf(d) == IF d = 7 THEN "7" ELSE "0"
IsDigits(s) == s # <<>> /\ \A i \in DOMAIN s : s[i] = "7"

RECURSIVE Value(_)
Value(s) ==
    IF s = <<>> THEN 0
    ELSE 10 * Value(SubSeq(s, 1, Len(s) - 1)) + DigitOf(s[Len(s)])

RECURSIVE Digits(_)
Digits(n) ==
    IF n < 10 THEN <<CharOf(n)>>
    ELSE Digits(n \div 10) \o <<CharOf(n % 10)>>

\* A host name is made of letters and digits.
ValidHost(h) == h # <<>> /\ \A i \in DOMAIN h : h[i] \in {"a", "7"}

\* What one half `[host][:port]` of a specification may resolve to.  A
\* missing host is the default host name and a missing port the default
\* port; a port that is not a number of 1..65535 and a host that is not a
\* host name are errors.  Where the grammar leaves a case open (a colon
\* with nothing after it, a second colon) every outcome is allowed.
ResolveHalf(h, def_host, def_port) ==
    LET n == Count(h, ":")
        host_s == IF n = 0 THEN h ELSE SubSeq(h, 1, First(h, ":") - 1)
        port_s == IF n = 0 THEN <<>>
                  ELSE SubSeq(h, First(h, ":") + 1, Len(h))
        host == IF host_s = <<>> THEN def_host ELSE host_s
        ok == [err |-> "", host |-> host,
               port |-> IF port_s = <<>> THEN def_port ELSE Value(port_s)]
        bad(e) == [err |-> e, host |-> <<>>, port |-> NoPort]
        errors ==
            {e \in {"host", "port"} :
                \/ n > 1
                \/ e = "host" /\ ~ValidHost(host)
                \/ e = "port" /\ port_s # <<>>
                      /\ (~IsDigits(port_s) \/ Value(port_s) \notin 1..MaxPort)}
    IN  IF errors # {} THEN {bad(e) : e \in errors}
        ELSE IF n = 1 /\ port_s = <<>> THEN {ok, bad("port")}
        ELSE {ok}

\* What a specification may resolve to: without a semicolon the one pair
\* serves both roles; with one, the first half binds and the second
\* connects.  An empty (or absent) specification is all defaults.
ResolveSpec(spec, def_host, def_port) ==
    LET both(b, c) ==
            [err |-> IF b.err # "" THEN b.err ELSE c.err,
             bind_host |-> b.host, bind_port |-> b.port,
             host |-> c.host, port |-> c.port]
    IN  IF Count(spec, ";") = 0
        THEN {both(b, b) : b \in ResolveHalf(spec, def_host, def_port)}
        ELSE LET k == First(spec, ";") IN
             {both(b, c) :
                 b \in ResolveHalf(SubSeq(spec, 1, k - 1), def_host, def_port),
                 c \in ResolveHalf(SubSeq(spec, k + 1, Len(spec)),
                                   def_host, def_port)}

\* The two server classes: default port and codes of a bad specification.
Classes == {"RedisServer", "ToolDataSink"}
DefPort(cls) == IF cls = "RedisServer" THEN def_redis_port ELSE def_wsgi_port
BadSpecCode(cls, e) ==
    IF cls = "RedisServer"
    THEN (IF e = "port" THEN BADREDISPORT ELSE BADREDISHOST)
    ELSE (IF e = "port" THEN BADWSGIPORT ELSE BADWSGIHOST)

\* A constructor that leaves pid_file as it was.
AfterInit_NoPidFile(cls, e) == e

\* What the constructor of the class adds to the fields resolved:
\* RedisServer.__init__ sets self.pid_file = None.
AfterInit(cls, e) ==
    IF cls = "RedisServer" THEN [e EXCEPT !.pid_file = "None"] ELSE e

\* The assertion at the top of RedisServer.start and ToolDataSink.start.
StartAssertion(e) ==
    /\ e.host # <<>>
    /\ e.port # NoPort
    /\ e.bind_host # <<>>
    /\ e.bind_port # NoPort
    /\ e.cls = "RedisServer" => e.pid_file = "None"

\* The state of start() when it constructs the server objects, for a group
\* of the local host alone; the specification string is any string.
InitParse ==
    /\ pc = "servers"
    /\ outcome = "running"
    /\ ret = -1
    /\ hostnames = <<"localhost">>
    /\ cli = [orchestrate |-> "create", redis_server |-> "spec",
              tool_data_sink |-> "", sysinfo |-> ""]
    /\ orchestrate = TRUE
    /\ tm_dir = "created"
    /\ tool_dir = "unobserved"
    /\ recovery = <<Action("abort", "")>>
    /\ recovery_made = TRUE
    /\ status = -1
    /\ cleanup_calls = 0
    /\ cleanup_log = <<>>
    /\ cleanup_faults = 0
    /\ idx = 2
    /\ ssh_sessions = {}
    /\ origin_host = [h \in Hosts |-> ""]
    /\ origin_ip = {}
    /\ redis_server_spec = "spec"
    /\ tds_server_spec = ""
    /\ redis_running = FALSE
    /\ connected = FALSE
    /\ bus = <<>>
    /\ written = {}
    /\ tm_param_key = <<>>
    /\ tds_running = FALSE
    /\ tds_attempted = FALSE
    /\ tds_started = FALSE
    /\ now = 0
    /\ num_present = 0
    /\ tms = [h \in Hosts |-> ""]
    /\ tm_count = 0
    /\ failures = 0
    /\ successes = 0
    /\ launched = <<>>
    /\ joined = <<>>
    /\ tm_running = {}
    /\ diagnosed = {}
    /\ tms_raised = ""
    /\ wait_status = ""
    /\ chan = <<>>
    /\ chan_seen = <<>>
    /\ got_startup = FALSE
    /\ ret_val = -1
    /\ tm_report = [h \in {} |-> FALSE]
    /\ tool_install_failures = {}
    /\ terminate_sent = FALSE
    /\ sysinfo_sent = FALSE
    /\ init_sent = FALSE
    /\ dns = HostsFile
    /\ server = Unconstructed
    /\ running = FALSE
    /\ tds_killed = FALSE
    /\ spec_in \in SpecStrings
    /\ endpoint = NoEndpoint
    /\ fs = NoFs
    /\ job = NoJob
    /\ ru = NoFrame

parseFrame ==
    <<inputVars, cullVars, dns, server, running, tds_killed, spec_in, orchestrate,
      fsVars, recovery, recovery_made, cleanupVars, idx, probeVars,
      specVars, redis_running, connected, busVars, tdsVars, tmsVars,
      waitVars, clientVars>>

\* RedisServer(spec, full_hostname) or ToolDataSink(spec, full_hostname):
\* an Err of the constructor becomes a CleanupTime with its return code.
ConstructServer ==
    /\ pc = "servers"
    /\ \E cls \in Classes :
       \E r \in ResolveSpec(spec_in, DefHostName, DefPort(cls)) :
          IF r.err # ""
          THEN Handle(BadSpecCode(cls, r.err)) /\ UNCHANGED endpoint
          ELSE /\ endpoint' =
                     AfterInit(cls,
                         [NoEndpoint EXCEPT
                             !.cls = cls,
                             !.bind_host = r.bind_host,
                             !.bind_port = r.bind_port,
                             !.host = r.host,
                             !.port = r.port])
               /\ pc' = "constructed"
               /\ UNCHANGED <<resultVars, status, cleanup_calls>>
    /\ UNCHANGED parseFrame

\* The entry of start() of the object constructed: a failed assertion is
\* an exception of the outer try.
EnterStart ==
    /\ pc = "constructed"
    /\ IF StartAssertion(endpoint)
       THEN pc' = "start_entered"
               /\ UNCHANGED <<resultVars, status, cleanup_calls>>
       ELSE Handle(INITFAILED)
    /\ UNCHANGED <<parseFrame, endpoint>>

NextParse ==
    \/ ConstructServer
    \/ EnterStart

SpecParse == InitParse /\ [][NextParse]_vars

\* The specification string with the four fields given written back from
\* the fields resolved.
Written(e) ==
    e.bind_host \o <<":">> \o Digits(e.bind_port) \o <<";">>
    \o e.host \o <<":">> \o Digits(e.port)

\* The specification has no semicolon.
BareSpec(spec) == Count(spec, ";") = 0

\* The specification gives both halves, each with its host and its port.
BothHalvesGiven(spec) ==
    /\ Count(spec, ";") = 1
    /\ Count(spec, ":") = 2
    /\ LET k == First(spec, ";")
           b == SubSeq(spec, 1, k - 1)
           c == SubSeq(spec, k + 1, Len(spec))
       IN  \A h \in {b, c} :
              /\ Count(h, ":") = 1
              /\ First(h, ":") \notin {1, Len(h)}

\* C27: a server object constructed from a specification with both halves
\* given has the four values supplied (writing its fields back gives the
\* specification); one constructed from a specification without a
\* semicolon has the same bind and connect fields; and every object
\* constructed has its four fields set (its pid_file None for the Redis
\* server), so that the assertion at the top of start() never fails.
C27_EndpointResolved ==
    /\ [](pc \in {"constructed", "start_entered"} =>
             /\ BothHalvesGiven(spec_in) => Written(endpoint) = spec_in
             /\ BareSpec(spec_in) =>
                   /\ endpoint.bind_host = endpoint.host
                   /\ endpoint.bind_port = endpoint.port
             /\ ValidHost(endpoint.host) /\ ValidHost(endpoint.bind_host)
             /\ endpoint.port \in 1..MaxPort
             /\ endpoint.bind_port \in 1..MaxPort
             /\ StartAssertion(endpoint))
    /\ [][pc = "constructed" => pc' = "start_entered"]_vars

C27_Witness ==
    /\ pc = "start_entered"
    /\ endpoint.cls = "RedisServer"
    /\ BothHalvesGiven(spec_in)
    /\ endpoint.bind_host # endpoint.host
    /\ endpoint.bind_port # endpoint.port

\* The codes with which tool_data_sink.start() fails.
TdsStartCodes ==
    {TDSFORKFAILED, TDSWAITFAILURE, TDSLOGPUBFAILED, TDSSTARTUPTIMEOUT}

\* C28: in orchestrate mode a Tool Meister launch is issued only after
\* ToolDataSink.start has returned normally, which it does only after a
\* publish on the logging channel found a subscriber and the PID file was
\* there; when the data-sink start fails no launch is ever issued.
C28_NoLaunchBeforeTdsReady ==
    /\ [][/\ launched' # launched
                => (orchestrate /\ pc = "launch" /\ tds_started
                       /\ tds_running)
          /\ (tds_started' /\ ~tds_started)
                => (pc = "tds_pid" /\ num_present # 0 /\ tds_running
                       /\ pc' = "reg_term")
          /\ (pc = "tds_poll" /\ pc' = "tds_pid") => num_present' # 0
          /\ (pc \in {"tds_fork", "tds_child", "tds_poll", "tds_pid"}
                 /\ pc' = "handler")
                => (~tds_started' /\ launched' = <<>>)]_vars
    /\ [](~tds_started => launched = <<>>)
    /\ []((status \in TdsStartCodes /\ ~tds_started) => launched = <<>>)

C28_Witness ==
    /\ orchestrate
    /\ tds_started
    /\ num_present # 0
    /\ Len(launched) = 2

\* The positions of cleanup_log at which an action of the kind was run.
RanAt(kind) == {i \in DOMAIN cleanup_log : cleanup_log[i].kind = kind}

\* C29: whenever the rollback runs with the terminate action registered,
\* the terminate request is attempted before the data sink is shut down
\* and before the Redis server is killed; and when its publish fails the
\* rollback still runs every other action, so that the data sink and the
\* Redis server this run started are stopped.
C29_TerminateBeforeServersStop ==
    /\ [][(pc = "cleanup" /\ cleanup_log' # cleanup_log
              /\ NextAction(recovery).kind \in {"tds", "redis"})
             => /\ Action("terminate", "") \notin Range(recovery)
                /\ terminate_sent' = terminate_sent]_vars
    /\ [](\A i \in RanAt("terminate"), j \in RanAt("tds") \cup RanAt("redis") :
             i < j)
    /\ []((pc = "done" /\ outcome = "returned"
              /\ RanAt("terminate") # {} /\ ~terminate_sent)
             => /\ recovery = <<>>
                /\ orchestrate => (RanAt("tds") # {} /\ RanAt("redis") # {})
                /\ cleanup_faults = 1
                      => (~tds_running /\ ~redis_running))

C29_Witness ==
    /\ pc = "done"
    /\ outcome = "returned"
    /\ orchestrate
    /\ RanAt("terminate") # {}
    /\ ~terminate_sent
    /\ RanAt("tds") # {}
    /\ RanAt("redis") # {}
    /\ ~tds_running
    /\ ~redis_running

\* C30: when the Redis server cannot be spawned, or exits non-zero, start()
\* returns EXCSPAWNREDIS or REDISFAILED after the rollback, having never
\* connected to the bus nor written a key; and "stop Redis" is registered
\* only in the step in which RedisServer.start returned normally, so the
\* rollback never kills a Redis server that did not start.
C30_RedisFailureRegistersNothing ==
    /\ []((status \in {EXCSPAWNREDIS, REDISFAILED, EXCREDISCONFIG, NOIP}) =>
             /\ ~redis_running /\ ~connected /\ written = {}
             /\ Action("redis", "") \notin
                   Range(recovery) \cup Range(cleanup_log)
             /\ ~tds_attempted /\ launched = <<>>
             /\ (pc = "done" /\ outcome = "returned")
                   => (ret = status /\ cleanup_calls = 1))
    /\ [][/\ (Action("redis", "") \in Range(recovery')
                 /\ Action("redis", "") \notin Range(recovery))
                => (pc = "redis" /\ pc' = "connect" /\ redis_running')
          /\ (pc = "redis" /\ pc' = "handler") => recovery' = recovery
          /\ (pc = "cleanup" /\ cleanup_log' # cleanup_log
                 /\ NextAction(recovery).kind = "redis")
                => redis_running]_vars

C30_Witness ==
    /\ pc = "done"
    /\ outcome = "returned"
    /\ ret = REDISFAILED
    /\ cleanup_log = <<Action("abort", "")>>
    /\ ~connected
    /\ Len(hostnames) = 2

\* The hosts of the group whose launch record is "forked" or "spawned", in
\* the order of the group.
Started == SelectSeq(hostnames, LAMBDA h : tms[h] \in {"forked", "spawned"})

\* C31: in start_tms_via_ssh the second loop is left only at its end (or by
\* a user interrupt), and at its end every host with a "forked" or
\* "spawned" record was joined exactly once, in order, whatever the
\* earlier joins gave; every host that did not start then has a failure
\* logged for it.
C31_EveryLaunchedHostJoined ==
    /\ [][(pc = "join" /\ pc' # "join" /\ ~Interrupt)
             => /\ idx > Len(hostnames)
                /\ joined = Started
                /\ diagnosed = GroupHosts \ tm_running]_vars
    /\ [](\A i, j \in DOMAIN joined : joined[i] = joined[j] => i = j)
    /\ [](pc = "join" =>
             /\ Len(joined) <= idx - 1
             /\ Range(joined) =
                   {hostnames[i] : i \in {k \in 1..(idx - 1) :
                                            tms[hostnames[k]] # "failed"}})

C31_Witness ==
    /\ pc = "join"
    /\ idx > Len(hostnames)
    /\ Len(hostnames) = 2
    /\ joined = hostnames
    /\ tm_running = {hostnames[2]}
    /\ diagnosed = {hostnames[1]}

\* The control flow of start_tms_via_ssh is at `if successes != tm_count`:
\* the second loop is over, the assertion held and TMFAILURES was not
\* raised.
AtMissingCheck ==
    /\ pc = "join"
    /\ idx > Len(hostnames)
    /\ TmsEnd \notin {"AssertionError", "TMFAILURES"}

\* C32: whenever start_tms_via_ssh reaches the check of successes against
\* tm_count, failures is 0 and successes equals tm_count, so TMMISSING is
\* never raised and start() never has it as its status.
C32_TmMissingNeverRaised ==
    /\ AtMissingCheck => (failures = 0 /\ successes = tm_count
                             /\ TmsEnd = "none")
    /\ tms_raised # "TMMISSING"
    /\ status # TMMISSING
    /\ ret # TMMISSING

C32_Witness ==
    /\ AtMissingCheck
    /\ Len(hostnames) = 2
    /\ successes = 2
    /\ tm_running = GroupHosts

(***************************************************************************)
(* The first-generation child of an os.fork() of start_tms_via_ssh or of   *)
(* ToolDataSink.start.  The child starts with a copy of the state of the   *)
(* parent at the fork and calls the entry point of the agent; the          *)
(* variables are those of the child process (the servers and bus keys      *)
(* are the ones it shares with the parent).                                *)
(***************************************************************************)
\* The position of the local host in the group.
LocalAt(s) == CHOOSE i \in DOMAIN s : is_local(s[i])

\* The state of the child when os.fork() returned 0 in it: the parent was
\* about to start the data sink, or had reached the local host in the
\* first loop of start_tms_via_ssh.
InitChild ==
    /\ pc \in {"in_tds_main", "in_tm_main"}
    /\ outcome = "running"
    /\ ret = -1
    /\ hostnames \in HostSeqs \ {<<>>}
    /\ pc = "in_tm_main" => "localhost" \in Range(hostnames)
    /\ cli \in {c \in CliParams : c.orchestrate = "create"
                                    /\ c.sysinfo # "bad"}
    /\ orchestrate = TRUE
    /\ tm_dir = "created"
    /\ tool_dir = "unobserved"
    /\ recovery = IF pc = "in_tds_main" THEN RegisteredBeforeTds(hostnames)
                  ELSE RegisteredBeforeTds(hostnames)
                          \o <<Action("tds", ""), Action("terminate", "")>>
    /\ recovery_made = TRUE
    /\ status = -1
    /\ cleanup_calls = 0
    /\ cleanup_log = <<>>
    /\ cleanup_faults = 0
    /\ idx = IF pc = "in_tds_main" THEN Len(hostnames) + 1
             ELSE LocalAt(hostnames)
    /\ ssh_sessions = {}
    /\ origin_host = [h \in Hosts |->
                         IF h \in RemoteIn(hostnames) THEN ProbedOrigin
                         ELSE ""]
    /\ origin_ip = IF RemoteIn(hostnames) # {} THEN {ProbedOrigin} ELSE {}
    /\ redis_server_spec = SpecOrOrigin(cli.redis_server, hostnames)
    /\ tds_server_spec = SpecOrOrigin(cli.tool_data_sink, hostnames)
    /\ redis_running = TRUE
    /\ connected = TRUE
    /\ bus = [k \in {TmKey(h) : h \in Range(hostnames)} \cup {TdsKey} |->
                 IF k = TdsKey THEN "tds"
                 ELSE IF ~is_local(k[2]) THEN ProbedOrigin
                 ELSE IF tds_server_spec = "" THEN "full_hostname"
                 ELSE tds_server_spec]
    /\ written = DOMAIN bus
    /\ tm_param_key = TmKey(hostnames[Len(hostnames)])
    /\ tds_running = (pc = "in_tm_main")
    /\ tds_attempted = TRUE
    /\ tds_started = (pc = "in_tm_main")
    /\ now = 0
    /\ num_present = IF pc = "in_tm_main" THEN 1 ELSE 0
    /\ launched = IF pc = "in_tds_main" THEN <<>>
                  ELSE SubSeq(hostnames, 1, LocalAt(hostnames) - 1)
    /\ tms \in [Hosts -> {"", "spawned", "failed"}]
    /\ \A h \in Hosts : tms[h] # "" <=> h \in Range(launched)
    /\ tm_count = Len(launched)
    /\ failures = 0
    /\ successes = 0
    /\ joined = <<>>
    /\ tm_running = {}
    /\ diagnosed = {h \in Hosts : tms[h] = "failed"}
    /\ tms_raised = ""
    /\ wait_status = ""
    /\ chan = <<>>
    /\ chan_seen = <<>>
    /\ got_startup = FALSE
    /\ ret_val = -1
    /\ tm_report = [h \in {} |-> FALSE]
    /\ tool_install_failures = {}
    /\ terminate_sent = FALSE
    /\ sysinfo_sent = FALSE
    /\ init_sent = FALSE
    /\ dns = HostsFile
    /\ server = Unconstructed
    /\ running = FALSE
    /\ tds_killed = FALSE
    /\ spec_in = <<>>
    /\ endpoint = NoEndpoint
    /\ fs = NoFs
    /\ job = NoJob
    /\ ru = NoFrame

childFrame ==
    <<inputVars, cullVars, serverVars, orchestrate, fsVars, recovery, recovery_made,
      cleanupVars, probeVars, specVars, redis_running, connected, busVars,
      tdsVars, successes, joined, tm_running, tms_raised, waitVars,
      clientVars>>

\* status = tm_main([...]); sys.exit(status) in the child of
\* start_tms_via_ssh.  SystemExit is caught by nothing and ends the child;
\* an exception of tm_main is caught by the `except Exception` around the
\* fork, and the child goes on in the loop with the record "failed".
TmChildMain ==
    /\ pc = "in_tm_main"
    /\ \/ \* tm_main returned (or called exit itself)
          /\ pc' = "child_exited"
          /\ UNCHANGED <<resultVars, status, cleanup_calls, idx, tms,
                         tm_count, failures, launched, diagnosed>>
       \/ \* tm_main raised
          LET host == hostnames[idx]
              rec == LocalLaunch(TRUE) IN
          /\ tm_count' = tm_count + 1
          /\ launched' = Append(launched, host)
          /\ tms' = [tms EXCEPT ![host] = rec.status]
          /\ failures' = rec.failures
          /\ diagnosed' = diagnosed \cup {host}
          /\ pc' = LaunchLoopPc(idx)
          /\ idx' = IF LaunchLoopPc(idx) = "launch" THEN idx + 1 ELSE 1
          /\ UNCHANGED <<resultVars, status, cleanup_calls>>
    /\ UNCHANGED childFrame

\* status = tds_main([...]); sys.exit(status) in the child of
\* ToolDataSink.start.  An exception of tds_main is caught by the
\* `except Exception` around the fork, which raises TDSFORKFAILED in the
\* child; start() turns it into a CleanupTime there.
TdsChildMain ==
    /\ pc = "in_tds_main"
    /\ \/ \* tds_main returned (or called exit itself)
          /\ pc' = "child_exited"
          /\ UNCHANGED <<resultVars, status, cleanup_calls>>
       \/ \* tds_main raised
          Handle(TDSFORKFAILED)
    /\ UNCHANGED <<childFrame, idx, tms, tm_count, failures, launched,
                   diagnosed>>

\* The child, and what it runs of start() when it does not exit.
NextChild ==
    \/ TmChildMain
    \/ TdsChildMain
    \/ LaunchTm
    \/ JoinTm
    \/ CheckTms
    \/ EnterHandler
    \/ CleanupStep
    \/ CleanupDone
    \/ Interrupt

SpecChild == InitChild /\ [][NextChild]_vars

\* C33: a child created by fork never continues the control flow of its
\* parent: whatever the entry point of the agent does in it, the child is
\* in that entry point or has exited; it launches and joins no host, runs
\* no later step of start() and none of the rollback actions.
C33_ChildNeverRunsParentFlow ==
    /\ [](pc \in {"in_tm_main", "in_tds_main", "child_exited"})
    /\ [][UNCHANGED <<launched, joined, cleanup_log, cleanup_calls,
                      redis_running, tds_running, bus>>]_vars

\* C34: rollback removes only what this run created: a tool output
\* directory that existed before start() is left in place by the rollback
\* that follows a failed initialization of the persistent tools.
C34_PreexistingToolDirKept ==
    [][(tool_dir = "preexisting" /\ status = INITFAILED)
          => tool_dir' = "preexisting"]_vars

(***************************************************************************)
(* The culling job (pbench-cull-unpacked-tarballs).  The unpacked          *)
(* tar balls that aged out are numbered 1..MaxTarballs in the order main() *)
(* is given them; they belong to one controller.  An entry of the RESULTS  *)
(* or USERS tree of that controller is a sub-directory name the walk       *)
(* lists; its target is the candidate realpath(readlink(entry)) names, or  *)
(* 0 when readlink fails or the path is that of no candidate.              *)
(***************************************************************************)
MaxTarballs == 2
MaxLinks == 2

Tarballs == 1..MaxTarballs

Trees == UNION {[1..n -> 0..MaxTarballs] : n \in 0..MaxLinks}

Tree(t) == [k \in DOMAIN t |-> [target |-> t[k], present |-> TRUE]]

\* class Action: a verb, a noun and a status.
CullAction(verb, noun, st) == [verb |-> verb, noun |-> noun, status |-> st]

\* class ActionSet, with the name main() gives it.
ActionSet(name, actions, errors) ==
    [name |-> name, actions |-> actions, errors |-> errors]

\* remove_symlinks: the entry still exists and
\* os.path.realpath(os.readlink(full_p)) == tb_incoming_dir.
Points(e, tb) == e.present /\ e.target = tb

Performs_Always(dry_run) == TRUE

\* `if not dry_run:` in front of os.unlink, os.rename and shutil.rmtree.
Performs(dry_run) == ~dry_run

Aborts_Never(errors) == FALSE

\* `if errors > 0:` after each remove_symlinks call of remove_unpacked.
Aborts(errors) == errors > 0

\* `if act_set.errors > 0: break` in main().
StopsCulling(errors) == errors > 0

\* The outcomes of a filesystem call: it can fail only when it is made.
Failures(dry_run) == IF Performs(dry_run) THEN BOOLEAN ELSE {FALSE}

\* The job starts: main() has read its configuration and built the list
\* of candidates; every candidate is unpacked in INCOMING.
InitCull ==
    /\ pc = "cull_loop"
    /\ outcome = "running"
    /\ ret = -1
    /\ hostnames = <<>>
    /\ cli = [orchestrate |-> "", redis_server |-> "", tool_data_sink |-> "",
              sysinfo |-> ""]
    /\ orchestrate = FALSE
    /\ tm_dir = "absent"
    /\ tool_dir = "unobserved"
    /\ recovery = <<>>
    /\ recovery_made = FALSE
    /\ status = -1
    /\ cleanup_calls = 0
    /\ cleanup_log = <<>>
    /\ cleanup_faults = 0
    /\ idx = 1
    /\ ssh_sessions = {}
    /\ origin_host = [h \in Hosts |-> ""]
    /\ origin_ip = {}
    /\ redis_server_spec = ""
    /\ tds_server_spec = ""
    /\ redis_running = FALSE
    /\ connected = FALSE
    /\ bus = <<>>
    /\ written = {}
    /\ tm_param_key = <<>>
    /\ tds_running = FALSE
    /\ tds_attempted = FALSE
    /\ tds_started = FALSE
    /\ now = 0
    /\ num_present = 0
    /\ tms = [h \in Hosts |-> ""]
    /\ tm_count = 0
    /\ failures = 0
    /\ successes = 0
    /\ launched = <<>>
    /\ joined = <<>>
    /\ tm_running = {}
    /\ diagnosed = {}
    /\ tms_raised = ""
    /\ wait_status = ""
    /\ chan = <<>>
    /\ chan_seen = <<>>
    /\ got_startup = FALSE
    /\ ret_val = -1
    /\ tm_report = [h \in {} |-> FALSE]
    /\ tool_install_failures = {}
    /\ terminate_sent = FALSE
    /\ sysinfo_sent = FALSE
    /\ init_sent = FALSE
    /\ dns = HostsFile
    /\ server = Unconstructed
    /\ running = FALSE
    /\ tds_killed = FALSE
    /\ spec_in = <<>>
    /\ endpoint = NoEndpoint
    /\ fs \in {[results |-> Tree(r), users |-> Tree(u), user |-> w,
                incoming |-> [tb \in Tarballs |-> "present"]] :
                   r \in Trees, u \in Trees, w \in [Tarballs -> BOOLEAN]}
    /\ job \in {[NoJob EXCEPT !.dry_run = d,
                              !.gen = [k \in Tarballs |-> k],
                              !.i = 1] : d \in BOOLEAN}
    /\ ru = NoFrame

cullFrame ==
    <<resultVars, inputVars, serverVars, orchestrate, fsVars, recovery,
      recovery_made, status, cleanup_calls, cleanupVars, idx, probeVars,
      specVars, redis_running, connected, busVars, tdsVars, tmsVars,
      waitVars, clientVars>>

\* main(): the next candidate of the for loop; remove_unpacked is entered
\* and its first remove_symlinks walk begins.
CullNext ==
    /\ pc = "cull_loop"
    /\ job.i <= Len(job.gen)
    /\ ru' = [tb |-> job.gen[job.i], phase |-> "results", j |-> 1,
              errors |-> 0, actions_taken |-> <<>>]
    /\ pc' = "cull_remove"
    /\ UNCHANGED <<fs, job, cullFrame>>

\* remove_unpacked returns an ActionSet; main() names and records it, and
\* leaves the loop if it has errors.
ReturnSet(actions, errors) ==
    /\ job' = [job EXCEPT
                 !.actions_taken = Append(@, ActionSet(ru.tb, actions, errors)),
                 !.i = IF StopsCulling(errors) THEN @ ELSE @ + 1]
    /\ pc' = IF StopsCulling(errors) THEN "cull_report" ELSE "cull_loop"
    /\ ru' = NoFrame

\* remove_symlinks: one sub-directory name of the walk of the given tree.
WalkStep(tree) ==
    /\ ru.j <= Len(fs[tree])
    /\ IF ~Points(fs[tree][ru.j], ru.tb)
       THEN /\ ru' = [ru EXCEPT !.j = @ + 1]
            /\ UNCHANGED fs
       ELSE \E failed \in Failures(job.dry_run) :
               LET st == IF ~Performs(job.dry_run) THEN "n/a"
                         ELSE IF failed THEN "fail" ELSE "succ" IN
               /\ fs' = IF Performs(job.dry_run) /\ ~failed
                        THEN [fs EXCEPT ![tree][ru.j].present = FALSE]
                        ELSE fs
               /\ ru' = [ru EXCEPT
                           !.j = @ + 1,
                           !.errors = IF failed THEN @ + 1 ELSE @,
                           !.actions_taken =
                               Append(@, CullAction("rm", <<tree, ru.j>>, st))]
    /\ UNCHANGED <<pc, job, cullFrame>>

\* remove_unpacked's first call of remove_symlinks, on RESULTS/<controller>.
WalkResults ==
    /\ pc = "cull_remove"
    /\ ru.phase = "results"
    /\ WalkStep("results")

\* remove_unpacked's second call, on USERS/<user>/<controller>.
WalkUsers ==
    /\ pc = "cull_remove"
    /\ ru.phase = "users"
    /\ WalkStep("users")

\* remove_unpacked after the walk of the RESULTS tree: abort on errors,
\* else fetch the user name and walk the USERS tree if there is one.
ResultsWalked ==
    /\ pc = "cull_remove"
    /\ ru.phase = "results"
    /\ ru.j > Len(fs.results)
    /\ IF Aborts(ru.errors)
       THEN ReturnSet(ru.actions_taken, ru.errors)
       ELSE /\ ru' = [ru EXCEPT
                        !.phase = IF fs.user[ru.tb] THEN "users" ELSE "rename",
                        !.j = 1]
            /\ UNCHANGED <<pc, job>>
    /\ UNCHANGED <<fs, cullFrame>>

\* remove_unpacked after the walk of the USERS tree.
UsersWalked ==
    /\ pc = "cull_remove"
    /\ ru.phase = "users"
    /\ ru.j > Len(fs.users)
    /\ IF Aborts(ru.errors)
       THEN ReturnSet(ru.actions_taken, ru.errors)
       ELSE /\ ru' = [ru EXCEPT !.phase = "rename"]
            /\ UNCHANGED <<pc, job>>
    /\ UNCHANGED <<fs, cullFrame>>

\* os.rename(tb_incoming_dir, del_path) and its "mv" action.
Rename ==
    /\ pc = "cull_remove"
    /\ ru.phase = "rename"
    /\ \E failed \in Failures(job.dry_run) :
          IF failed
          THEN /\ ReturnSet(Append(ru.actions_taken,
                                   CullAction("mv", <<"incoming", ru.tb>>, "fail")),
                            1)
               /\ UNCHANGED fs
          ELSE /\ fs' = IF Performs(job.dry_run)
                        THEN [fs EXCEPT !.incoming[ru.tb] = "renamed"]
                        ELSE fs
               /\ ru' = [ru EXCEPT
                           !.phase = "rmtree",
                           !.actions_taken =
                               Append(@, CullAction("mv", <<"incoming", ru.tb>>,
                                                    "succ"))]
               /\ UNCHANGED <<pc, job>>
    /\ UNCHANGED cullFrame

\* shutil.rmtree(del_path) and its "rmtree" action, then the return.
Rmtree ==
    /\ pc = "cull_remove"
    /\ ru.phase = "rmtree"
    /\ \E failed \in Failures(job.dry_run) :
          /\ fs' = IF Performs(job.dry_run) /\ ~failed
                   THEN [fs EXCEPT !.incoming[ru.tb] = "removed"]
                   ELSE fs
          /\ ReturnSet(Append(ru.actions_taken,
                              CullAction("rmtree", <<"delete", ru.tb>>,
                                         IF failed THEN "fail" ELSE "succ")),
                       IF failed THEN 1 ELSE ru.errors)
    /\ UNCHANGED cullFrame

\* main(): the for loop ran out of candidates.
CullLoopEnd ==
    /\ pc = "cull_loop"
    /\ job.i > Len(job.gen)
    /\ pc' = "cull_report"
    /\ UNCHANGED <<cullVars, cullFrame>>

\* main(): the report is posted with a status computed from main()'s own
\* `errors`, which is also the value returned.
CullReport ==
    /\ pc = "cull_report"
    /\ job' = [job EXCEPT
                 !.status = IF job.errors = 0 THEN "status" ELSE "errors",
                 !.ret = job.errors]
    /\ pc' = "cull_done"
    /\ UNCHANGED <<fs, ru, cullFrame>>

NextCull ==
    \/ CullNext
    \/ WalkResults
    \/ ResultsWalked
    \/ WalkUsers
    \/ UsersWalked
    \/ Rename
    \/ Rmtree
    \/ CullLoopEnd
    \/ CullReport

SpecCull == InitCull /\ [][NextCull]_vars

\* A symbolic link to the candidate is left in the tree.
Linked(tree, tb) == \E k \in DOMAIN fs[tree] : Points(fs[tree][k], tb)

\* The action sets built so far: those main() recorded and the one of the
\* call of remove_unpacked in progress.
ActionSets ==
    Range(job.actions_taken)
        \cup (IF ru.phase = "idle" THEN {}
              ELSE {ActionSet(ru.tb, ru.actions_taken, ru.errors)})

HasAction(set, verbs, sts) ==
    \E k \in DOMAIN set.actions :
        set.actions[k].verb \in verbs /\ set.actions[k].status \in sts

\* C35: the incoming directory is renamed and removed only after every
\* symbolic link to it in the RESULTS tree and, when a user is recorded,
\* in the USERS tree was removed without error; when a removal of a link
\* failed the directory is neither renamed nor removed; and the tree is
\* removed only after the rename succeeded.
C35_DirectoryGoesAfterItsLinks ==
    /\ [](\A tb \in Tarballs :
             fs.incoming[tb] # "present"
                => /\ ~Linked("results", tb)
                   /\ fs.user[tb] => ~Linked("users", tb))
    /\ [](\A set \in ActionSets :
             HasAction(set, {"rm"}, {"fail"})
                => /\ ~HasAction(set, {"mv", "rmtree"}, {"succ", "fail", "n/a"})
                   /\ fs.incoming[set.name] = "present")
    /\ [][\A tb \in Tarballs :
             /\ (fs.incoming[tb] # "renamed" /\ fs'.incoming[tb] = "renamed")
                   => /\ fs.incoming[tb] = "present"
                      /\ ru.tb = tb
                      /\ ru.errors = 0
             /\ (fs.incoming[tb] # "removed" /\ fs'.incoming[tb] = "removed")
                   => /\ fs.incoming[tb] = "renamed"
                      /\ HasAction(ActionSet(tb, ru.actions_taken, 0),
                                   {"mv"}, {"succ"})]_vars

\* One directory went after its link in RESULTS was removed, the other
\* stays because the removal of a link to it failed.
C35_Witness ==
    /\ \E tb \in Tarballs :
          /\ fs.incoming[tb] = "removed"
          /\ \E k \in DOMAIN fs.results :
                fs.results[k].target = tb /\ ~fs.results[k].present
    /\ \E set \in Range(job.actions_taken) :
          /\ HasAction(set, {"rm"}, {"fail"})
          /\ fs.incoming[set.name] = "present"
          /\ Linked("users", set.name)

\* C36: main() stops removing at the first unpacked tar ball whose action
\* set has errors, leaving the later candidates untouched, and then
\* returns a non-zero value and posts the report with status "errors".
C36_ErrorsStopAndAreReported ==
    (pc = "cull_done" /\ \E set \in Range(job.actions_taken) : set.errors > 0)
        => /\ \A tb \in Tarballs :
                 tb > job.i => /\ fs.incoming[tb] = "present"
                               /\ \A set \in Range(job.actions_taken) :
                                     set.name # tb
           /\ job.ret # 0
           /\ job.status = "errors"

\* Every action a dry run records for a candidate, in order: the links to
\* it in RESULTS, those in USERS when a user is recorded, the rename and
\* the removal of the tree.
LinkActions(tree, tb) ==
    LET ks == SelectSeq([k \in DOMAIN fs[tree] |-> k],
                        LAMBDA k : fs[tree][k].target = tb) IN
    [n \in DOMAIN ks |-> <<"rm", <<tree, ks[n]>>>>]

FullRemoval(tb) ==
    LinkActions("results", tb)
        \o (IF fs.user[tb] THEN LinkActions("users", tb) ELSE <<>>)
        \o << <<"mv", <<"incoming", tb>>>>, <<"rmtree", <<"delete", tb>>>> >>

VerbNouns(actions) ==
    [k \in DOMAIN actions |-> <<actions[k].verb, actions[k].noun>>]

\* C37: with dry_run set the job changes nothing on the filesystem and
\* never records an error, and the actions it records for a candidate are
\* those of a run that removes the candidate without error.
C37_DryRunOnlyRecords ==
    /\ job.dry_run
          => /\ \A tb \in Tarballs : fs.incoming[tb] = "present"
             /\ \A tree \in {"results", "users"} :
                   \A k \in DOMAIN fs[tree] : fs[tree][k].present
             /\ \A set \in ActionSets :
                   /\ set.errors = 0
                   /\ ~HasAction(set, {"rm", "mv", "rmtree"}, {"fail"})
             /\ job.errors = 0
    /\ \A set \in Range(job.actions_taken) :
          (job.dry_run \/ set.errors = 0)
              => VerbNouns(set.actions) = FullRemoval(set.name)

\* A dry run finished, with every candidate reported and a link among the
\* recorded actions.
C37_Witness ==
    /\ job.dry_run
    /\ pc = "cull_done"
    /\ Len(job.actions_taken) = MaxTarballs
    /\ \E set \in Range(job.actions_taken) : HasAction(set, {"rm"}, {"n/a"})

====
